---- MODULE Spec2Model ----
(***************************************************************************)
(* A model of the health Checker (package health): the per-component      *)
(* check state machine, status aggregation, the synchronous check runner, *)
(* the periodic check loops and the Start/Stop/Check contract.            *)
(*                                                                         *)
(* Time is a natural number.  ZeroTime is Go's zero time.Time (year 1);   *)
(* the wall clock of a running program starts at Epoch, which lies more   *)
(* than any configured Duration after ZeroTime.                            *)
(***************************************************************************)
EXTENDS Integers, Sequences, FiniteSets, TLC

VARIABLES
    clock,              \* time.Now()
    cfg,                \* checkerConfig (fixed after construction)
    started,            \* defaultChecker.started
    asyncCheckCount,    \* defaultChecker.asyncCheckCount
    cancel,             \* defaultChecker.cancel: NilCancel or the id of the context it cancels
    asyncWg,            \* defaultChecker.asyncWg counter
    startedAndCountMtx, \* holder of defaultChecker.startedAndCountMtx
    checkStateMtx,      \* holder of defaultChecker.checkStateMtx
    state,              \* defaultChecker.state: CheckerState
    ctxs,               \* contexts created by Start: id -> cancelled?
    thr,                \* the caller threads of the public API
    calls,              \* Check(ctx) invocations, by caller
    chk,                \* locals of the Check invocation that holds checkStateMtx
    exec,               \* the goroutines of runSynchronousChecks, by check name
    abandoned,          \* check-function goroutines left behind by a timeout
    loops,              \* the goroutines of startAsyncChecks
    prods,              \* the goroutines of periodicCheck.start
    listenerCalls,      \* what cfg.statusChangeListener has been called with
    componentCalls,     \* what the checks' StatusListener has been called with
    panicked,           \* the process died of an unrecovered panic
    pure                \* inputs and output of a pure function under test

vars == <<clock, cfg, started, asyncCheckCount, cancel, asyncWg, startedAndCountMtx,
          checkStateMtx, state, ctxs, thr, calls, chk, exec, abandoned, loops, prods,
          listenerCalls, componentCalls, panicked, pure>>

---------------------------------------------------------------------------
(* Bounds of the model *)

\* The longest Duration a configuration of the model uses.
MaxDuration == 2
\* How many clock ticks after Epoch the model follows.
Horizon == 4
\* How many times Start may create a new context.
MaxGen == 2
\* The largest ContiguousFails / MaxContiguousFails drawn for evaluateCheckStatus.
MaxFailsB == 2
\* How far the clock advances in the behaviours with Start and Stop.
LifeHorizon == 2
\* How many times Start may create a new context while Start and Stop are
\* called concurrently.
ConcGens == 1
\* How many calls of Start, Stop and Check one thread makes.
MaxCalls == 2
\* The instants the clock advances while Start, Stop, Check and the readers of
\* the lifecycle state are all called concurrently.
CallsHorizon == 1
\* The largest number of global interceptors and of interceptors of a check.
MaxInterceptors == 2

ZeroTime == 0
Epoch == MaxDuration + 1
MaxTime == Epoch + Horizon

Min(a, b) == IF a <= b THEN a ELSE b

---------------------------------------------------------------------------
(* Availability status *)

StatusUnknown == "unknown"
StatusUp == "up"
StatusDown == "down"
Statuses == {StatusUp, StatusUnknown, StatusDown}

criticality_swapped(s) ==
    CASE s = StatusDown -> 1
      [] s = StatusUnknown -> 2
      [] OTHER -> 0

criticality(s) ==
    CASE s = StatusDown -> 2
      [] s = StatusUnknown -> 1
      [] OTHER -> 0

---------------------------------------------------------------------------
(* Check state *)

NilResult == "nil"
CheckErr == "check error"
CheckTimeoutErr == "check timed out"
FnResults == {NilResult, CheckErr}

\* What a check function may panic with: an error value and a value of
\* another type (a string).
PanicErr == "panic error"
PanicMsg == "test message"
PanicValues == {[type |-> "error", v |-> PanicErr], [type |-> "string", v |-> PanicMsg]}
\* fmt.Errorf("%v", r): the error whose text is the formatted value.
Errorf(r) == [x \in {PanicMsg} |-> "error: test message"][r]
\* The deferred function of the goroutine of executeCheckFunc, for a panic
\* with value r: what it sends into res.
recovered(r) == IF r.type = "error" THEN r.v ELSE Errorf(r.v)
\* What the channel res of executeCheckFunc may hold.
ChanResults == FnResults \cup {recovered(r) : r \in PanicValues}

\* A CheckState created with status up.
NewCheckState_up ==
    [LastCheckedAt |-> ZeroTime, LastSuccessAt |-> ZeroTime, LastFailureAt |-> ZeroTime,
     FirstCheckStartedAt |-> ZeroTime, ContiguousFails |-> 0, Result |-> NilResult,
     Status |-> StatusUp]

\* CheckState{Status: StatusUnknown}, as newChecker creates it.
NewCheckState ==
    [LastCheckedAt |-> ZeroTime, LastSuccessAt |-> ZeroTime, LastFailureAt |-> ZeroTime,
     FirstCheckStartedAt |-> ZeroTime, ContiguousFails |-> 0, Result |-> NilResult,
     Status |-> StatusUnknown]

IsZero(t) == t = ZeroTime

evaluateCheckStatus_either(st, maxTimeInError, maxFails, now1, now2) ==
    IF IsZero(st.LastCheckedAt) THEN StatusUnknown
    ELSE IF st.Result # NilResult THEN
        LET maxTimeInErrorSinceStartPassed == ~(st.FirstCheckStartedAt + maxTimeInError > now1)
            maxTimeInErrorSinceLastSuccessPassed ==
                IsZero(st.LastSuccessAt) \/ ~(st.LastSuccessAt + maxTimeInError > now2)
            timeInErrorThresholdCrossed ==
                maxTimeInErrorSinceStartPassed /\ maxTimeInErrorSinceLastSuccessPassed
            failCountThresholdCrossed == st.ContiguousFails >= maxFails
        IN IF failCountThresholdCrossed \/ timeInErrorThresholdCrossed
           THEN StatusDown ELSE StatusUp
    ELSE StatusUp

\* now1 and now2 are the two readings of time.Now() the function makes.
evaluateCheckStatus(st, maxTimeInError, maxFails, now1, now2) ==
    IF IsZero(st.LastCheckedAt) THEN StatusUnknown
    ELSE IF st.Result # NilResult THEN
        LET maxTimeInErrorSinceStartPassed == ~(st.FirstCheckStartedAt + maxTimeInError > now1)
            maxTimeInErrorSinceLastSuccessPassed ==
                IsZero(st.LastSuccessAt) \/ ~(st.LastSuccessAt + maxTimeInError > now2)
            timeInErrorThresholdCrossed ==
                maxTimeInErrorSinceStartPassed /\ maxTimeInErrorSinceLastSuccessPassed
            failCountThresholdCrossed == st.ContiguousFails >= maxFails
        IN IF failCountThresholdCrossed /\ timeInErrorThresholdCrossed
           THEN StatusDown ELSE StatusUp
    ELSE StatusUp

\* createNextCheckState that leaves the counter alone on a success.
createNextCheckState_keepsFails(result, check, st, now) ==
    LET s1 == [st EXCEPT !.Result = result, !.LastCheckedAt = now]
        s2 == IF result = NilResult
              THEN [s1 EXCEPT !.LastSuccessAt = now]
              ELSE [s1 EXCEPT !.ContiguousFails = @ + 1, !.LastFailureAt = now]
    IN [s2 EXCEPT !.Status =
            evaluateCheckStatus(s2, check.MaxTimeInError, check.MaxContiguousFails, now, now)]

\* check supplies maxTimeInError() and maxFails(); now is the clock reading.
createNextCheckState(result, check, st, now) ==
    LET s1 == [st EXCEPT !.Result = result, !.LastCheckedAt = now]
        s2 == IF result = NilResult
              THEN [s1 EXCEPT !.ContiguousFails = 0, !.LastSuccessAt = now]
              ELSE [s1 EXCEPT !.ContiguousFails = @ + 1, !.LastFailureAt = now]
    IN [s2 EXCEPT !.Status =
            evaluateCheckStatus(s2, check.MaxTimeInError, check.MaxContiguousFails, now, now)]

---------------------------------------------------------------------------
(* Aggregation *)

\* The loop of aggregateStatus, visiting the map's keys in the given order.
RECURSIVE aggregateLoop(_, _, _)
aggregateLoop(results, order, status) ==
    IF order = <<>> THEN status
    ELSE LET result == results[Head(order)]
         IN aggregateLoop(results, Tail(order),
                IF criticality(result.Status) > criticality(status)
                THEN result.Status ELSE status)

\* The orders in which a range over a map with the keys S may visit them.
Orders(S) == {o \in [1..Cardinality(S) -> S] : \A i, j \in 1..Cardinality(S) : i # j => o[i] # o[j]}

aggregateStatus(results) ==
    aggregateLoop(results, CHOOSE o \in Orders(DOMAIN results) : TRUE, StatusUp)

---------------------------------------------------------------------------
(* Configuration *)

Threads == {1, 2}
Gens == 1..MaxGen
NilCancel == 0
\* The context Check(ctx) is called with by a user: it is never done.
Background == 0
NoHolder == [kind |-> "none", id |-> 0]
ThreadCaller(t) == [kind |-> "thr", id |-> t]
InitCaller(g) == [kind |-> "init", id |-> g]
Callers == {ThreadCaller(t) : t \in Threads} \cup {InitCaller(g) : g \in Gens}

\* Check{...}: the fields of a check the Checker reads.  A Timeout or
\* initialDelay of 0 means none.
CheckFast ==
    [Timeout |-> 1, MaxTimeInError |-> 0, MaxContiguousFails |-> 0,
     DisablePanicRecovery |-> FALSE, initialDelay |-> 0, updateInterval |-> 0]
CheckTolerant ==
    [Timeout |-> 0, MaxTimeInError |-> 1, MaxContiguousFails |-> 2,
     DisablePanicRecovery |-> FALSE, initialDelay |-> 0, updateInterval |-> 0]
\* A synchronous check whose Timeout is longer than the timeout of the Checker.
CheckSlow ==
    [Timeout |-> MaxDuration + 1, MaxTimeInError |-> 0, MaxContiguousFails |-> 0,
     DisablePanicRecovery |-> FALSE, initialDelay |-> 0, updateInterval |-> 0]

CheckPeriodic ==
    [Timeout |-> 0, MaxTimeInError |-> 0, MaxContiguousFails |-> 0,
     DisablePanicRecovery |-> FALSE, initialDelay |-> 1, updateInterval |-> 1]

\* A periodic check that tolerates failures for some time.
CheckPeriodicTolerant ==
    [Timeout |-> 0, MaxTimeInError |-> MaxDuration, MaxContiguousFails |-> 0,
     DisablePanicRecovery |-> FALSE, initialDelay |-> 1, updateInterval |-> 1]

\* Checks that disable the recovery from panics.
CheckFastNoRecovery == [CheckFast EXCEPT !.DisablePanicRecovery = TRUE]
CheckPeriodicNoRecovery == [CheckPeriodic EXCEPT !.DisablePanicRecovery = TRUE]

\* checkerConfig with the synchronous checks sync and the periodic checks async
\* (both map a name to its Check), a global timeout and a cache TTL.
checkerConfig(sync, async) ==
    [timeout |-> 2, cacheTTL |-> 1, syncChecks |-> sync, asyncChecks |-> async]

\* A configuration without checks of one kind.
NoChecks == [c \in {} |-> CheckFast]
SyncNames == DOMAIN cfg.syncChecks
AsyncNames == DOMAIN cfg.asyncChecks
AllNames == SyncNames \cup AsyncNames

NoResult == [Status |-> "none", Details |-> [c \in {} |-> 0]]
NoChk == [deadline |-> 0, lockedAt |-> 0, parent |-> Background, numInitiatedChecks |-> 0,
          resChan |-> <<>>]
IdleExec == [pc |-> "idle", oldState |-> NewCheckState, checkState |-> NewCheckState,
             deadline |-> 0, fn |-> "none"]
IdleLoop == [pc |-> "none", oldState |-> NewCheckState, newState |-> NewCheckState]
IdleProd == [pc |-> "none", until |-> ZeroTime, deadline |-> ZeroTime, fn |-> "none",
             res |-> "none", firstCheckStartedAt |-> ZeroTime, waitForNext |-> "open"]
\* The deadline of a context that has none.
NoDeadline == MaxTime + 1

\* newChecker with autostart disabled.
newChecker(config) ==
    /\ clock = Epoch
    /\ cfg = config
    /\ started = FALSE
    /\ asyncCheckCount = 0
    /\ cancel = NilCancel
    /\ asyncWg = 0
    /\ startedAndCountMtx = NoHolder
    /\ checkStateMtx = NoHolder
    /\ state = [Status |-> StatusUnknown,
                CheckState |-> [c \in (DOMAIN config.syncChecks) \cup (DOMAIN config.asyncChecks)
                                   |-> NewCheckState]]
    /\ ctxs = [g \in {} |-> FALSE]
    /\ thr = [t \in Threads |-> [pc |-> "idle", op |-> "none", res |-> NoResult,
                                     ctx |-> NilCancel, todo |-> {}, n |-> 0,
                                     deadline |-> NoDeadline]]
    /\ calls = [k \in Callers |-> "none"]
    /\ chk = NoChk
    /\ exec = [c \in DOMAIN config.syncChecks |-> IdleExec]
    /\ abandoned = [c \in (DOMAIN config.syncChecks) \cup (DOMAIN config.asyncChecks) |-> 0]
    /\ loops = [g \in Gens |-> [c \in DOMAIN config.asyncChecks |-> IdleLoop]]
    /\ prods = [g \in Gens |-> [c \in DOMAIN config.asyncChecks |-> IdleProd]]
    /\ listenerCalls = <<>>
    /\ componentCalls = <<>>
    /\ panicked = FALSE

---------------------------------------------------------------------------
(* Shared state updates *)

RECURSIVE applyUpdates(_, _)
applyUpdates(checkState, updates) ==
    IF updates = <<>> THEN checkState
    ELSE applyUpdates([checkState EXCEPT ![Head(updates).checkName] = Head(updates).newState],
                      Tail(updates))

\* A merge that stores the results one at a time, aggregating and notifying
\* after each of them.
RECURSIVE mergeEach(_, _, _)
mergeEach(st, calledWith, updates) ==
    IF updates = <<>> THEN [state |-> st, listenerCalls |-> calledWith]
    ELSE LET checkState == [st.CheckState EXCEPT ![Head(updates).checkName] =
                                Head(updates).newState]
             newState == [Status |-> aggregateStatus(checkState), CheckState |-> checkState]
         IN mergeEach(newState,
                      IF st.Status # newState.Status
                      THEN Append(calledWith, newState.Status) ELSE calledWith,
                      Tail(updates))

updateState_perResult(st, calledWith, updates) ==
    mergeEach(st, calledWith, updates)

\* The mutation of ck.state and the listener call, as [state, listenerCalls].
updateState_always(st, calledWith, updates) ==
    LET checkState == applyUpdates(st.CheckState, updates)
        newState == [Status |-> aggregateStatus(checkState), CheckState |-> checkState]
    IN [state |-> newState, listenerCalls |-> Append(calledWith, newState.Status)]

\* updateState that keeps the aggregate status it finds.
updateState_keepsStatus(st, calledWith, updates) ==
    LET checkState == applyUpdates(st.CheckState, updates)
    IN [state |-> [Status |-> st.Status, CheckState |-> checkState],
        listenerCalls |-> calledWith]

updateState(st, calledWith, updates) ==
    LET checkState == applyUpdates(st.CheckState, updates)
        oldStatus == st.Status
        newState == [Status |-> aggregateStatus(checkState), CheckState |-> checkState]
    IN [state |-> newState,
        listenerCalls |-> IF oldStatus # newState.Status
                          THEN Append(calledWith, newState.Status)
                          ELSE calledWith]

mapStateToCheckerResult(st) ==
    [Status |-> st.Status,
     Details |-> [c \in DOMAIN st.CheckState |->
                    [Status |-> st.CheckState[c].Status,
                     Error |-> st.CheckState[c].Result,
                     Timestamp |-> st.CheckState[c].LastCheckedAt]]]

isCacheExpired_never(cacheDuration, st, now) ==
    IsZero(st.LastCheckedAt)

isCacheExpired(cacheDuration, st, now) ==
    IsZero(st.LastCheckedAt) \/ st.LastCheckedAt < now - cacheDuration

\* ctx.Done() is ready: the deadline has passed or the parent was cancelled.
ctxDone(deadline, parent) ==
    \/ clock >= deadline
    \/ parent # Background /\ ctxs[parent]

---------------------------------------------------------------------------
(* The clock *)

Tick ==
    /\ ~panicked
    /\ clock < MaxTime
    /\ clock' = clock + 1
    /\ UNCHANGED <<cfg, started, asyncCheckCount, cancel, asyncWg, startedAndCountMtx,
                   checkStateMtx, state, ctxs, thr, calls, chk, exec, abandoned, loops,
                   prods, listenerCalls, componentCalls, panicked, pure>>

---------------------------------------------------------------------------
(* Check(ctx) and runSynchronousChecks *)

lifecycleVars == <<started, asyncCheckCount, cancel, asyncWg, startedAndCountMtx, ctxs>>
periodicVars == <<loops, prods>>

\* A thread calls Check(ctx) with a context that is never done.  The call is
\* followed only while its deadline lies within the horizon of the model.
CheckCall(t) ==
    /\ ~panicked
    /\ thr[t].pc = "idle"
    /\ thr[t].n < MaxCalls
    /\ clock + cfg.timeout <= MaxTime
    /\ thr' = [thr EXCEPT ![t] = [@ EXCEPT !.pc = "Check", !.op = "Check", !.n = @ + 1,
                                            !.deadline = NoDeadline]]
    /\ calls' = [calls EXCEPT ![ThreadCaller(t)] = "lock"]
    /\ UNCHANGED <<clock, cfg, lifecycleVars, checkStateMtx, state, chk, exec, abandoned,
                   periodicVars, listenerCalls, componentCalls, panicked, pure>>

\* A thread calls Check(ctx) with a context whose deadline is d from now.
CheckCallWithDeadline(t, d) ==
    /\ ~panicked
    /\ thr[t].pc = "idle"
    /\ thr[t].n < MaxCalls
    /\ clock + cfg.timeout <= MaxTime
    /\ thr' = [thr EXCEPT ![t] = [@ EXCEPT !.pc = "Check", !.op = "Check", !.n = @ + 1,
                                            !.deadline = clock + d]]
    /\ calls' = [calls EXCEPT ![ThreadCaller(t)] = "lock"]
    /\ UNCHANGED <<clock, cfg, lifecycleVars, checkStateMtx, state, chk, exec, abandoned,
                   periodicVars, listenerCalls, componentCalls, panicked, pure>>

\* Check that starts the due checks without taking checkStateMtx.
CheckLock_noLock(k) ==
    /\ ~panicked
    /\ calls[k] = "lock"
    /\ clock + cfg.timeout <= MaxTime
    /\ LET parent == IF k.kind = "init" THEN k.id ELSE Background
           due == {c \in SyncNames : isCacheExpired(cfg.cacheTTL, state.CheckState[c], clock)}
           callerDeadline == IF k.kind = "thr" THEN thr[k.id].deadline ELSE NoDeadline
       IN /\ chk' = [deadline |-> Min(callerDeadline, clock + cfg.timeout),
                     lockedAt |-> clock, parent |-> parent,
                     numInitiatedChecks |-> Cardinality(due), resChan |-> <<>>]
          /\ exec' = [c \in SyncNames |->
                        IF c \in due
                        THEN [IdleExec EXCEPT !.pc = "spawned",
                                              !.oldState = state.CheckState[c],
                                              !.checkState = state.CheckState[c]]
                        ELSE exec[c]]
    /\ calls' = [calls EXCEPT ![k] = "collect"]
    /\ UNCHANGED <<clock, cfg, lifecycleVars, checkStateMtx, state, thr, abandoned,
                   periodicVars, listenerCalls, componentCalls, panicked, pure>>

\* checkStateMtx.Lock(), context.WithTimeout and the first loop of
\* runSynchronousChecks: the due checks get their goroutine.
CheckLock(k) ==
    /\ ~panicked
    /\ calls[k] = "lock"
    /\ checkStateMtx = NoHolder
    /\ clock + cfg.timeout <= MaxTime
    /\ checkStateMtx' = k
    /\ LET parent == IF k.kind = "init" THEN k.id ELSE Background
           due == {c \in SyncNames : isCacheExpired(cfg.cacheTTL, state.CheckState[c], clock)}
           callerDeadline == IF k.kind = "thr" THEN thr[k.id].deadline ELSE NoDeadline
       IN /\ chk' = [deadline |-> Min(callerDeadline, clock + cfg.timeout),
                     lockedAt |-> clock, parent |-> parent,
                     numInitiatedChecks |-> Cardinality(due), resChan |-> <<>>]
          /\ exec' = [c \in SyncNames |->
                        IF c \in due
                        THEN [IdleExec EXCEPT !.pc = "spawned",
                                              !.oldState = state.CheckState[c],
                                              !.checkState = state.CheckState[c]]
                        ELSE exec[c]]
    /\ calls' = [calls EXCEPT ![k] = "collect"]
    /\ UNCHANGED <<clock, cfg, lifecycleVars, state, thr, abandoned, periodicVars,
                   listenerCalls, componentCalls, panicked, pure>>

\* withCheckContext that gives the check its own Timeout whatever the
\* deadline of the context of the Check call.
ExecStart_ownTimeout(c) ==
    /\ ~panicked
    /\ exec[c].pc = "spawned"
    /\ LET check == cfg.syncChecks[c]
           deadline == IF check.Timeout > 0
                       THEN clock + check.Timeout
                       ELSE chk.deadline
           oldState == exec[c].oldState
           newState == IF IsZero(oldState.FirstCheckStartedAt)
                       THEN [oldState EXCEPT !.FirstCheckStartedAt = clock]
                       ELSE oldState
       IN exec' = [exec EXCEPT ![c] = [pc |-> "select", oldState |-> oldState,
                                       checkState |-> newState,
                                       deadline |-> deadline, fn |-> "running"]]
    /\ UNCHANGED <<clock, cfg, lifecycleVars, checkStateMtx, state, thr, calls, chk,
                   abandoned, periodicVars, listenerCalls, componentCalls, panicked, pure>>

\* The goroutine of a due check starts: withCheckContext derives its context,
\* executeCheck stamps FirstCheckStartedAt and executeCheckFunc starts the
\* goroutine of the check function.
ExecStart(c) ==
    /\ ~panicked
    /\ exec[c].pc = "spawned"
    /\ LET check == cfg.syncChecks[c]
           deadline == IF check.Timeout > 0
                       THEN Min(chk.deadline, clock + check.Timeout)
                       ELSE chk.deadline
           oldState == exec[c].oldState
           newState == IF IsZero(oldState.FirstCheckStartedAt)
                       THEN [oldState EXCEPT !.FirstCheckStartedAt = clock]
                       ELSE oldState
       IN exec' = [exec EXCEPT ![c] = [pc |-> "select", oldState |-> oldState,
                                       checkState |-> newState,
                                       deadline |-> deadline, fn |-> "running"]]
    /\ UNCHANGED <<clock, cfg, lifecycleVars, checkStateMtx, state, thr, calls, chk,
                   abandoned, periodicVars, listenerCalls, componentCalls, panicked, pure>>

\* The check function returns r: its goroutine puts r into the buffered channel res.
FnReturn(c, r) ==
    /\ ~panicked
    /\ exec[c].pc = "select"
    /\ exec[c].fn = "running"
    /\ exec' = [exec EXCEPT ![c].fn = r]
    /\ UNCHANGED <<clock, cfg, lifecycleVars, checkStateMtx, state, thr, calls, chk,
                   abandoned, periodicVars, listenerCalls, componentCalls, panicked, pure>>

\* The check function panics with value r.  The deferred function of its
\* goroutine recovers and sends the error into res, unless the check disables
\* panic recovery: then the panic ends the process.
FnPanic_unrecovered(c, r) ==
    /\ ~panicked
    /\ exec[c].pc = "select"
    /\ exec[c].fn = "running"
    /\ panicked' = TRUE
    /\ UNCHANGED <<clock, cfg, lifecycleVars, checkStateMtx, state, thr, calls, chk, exec,
                   abandoned, periodicVars, listenerCalls, componentCalls, pure>>

FnPanic(c, r) ==
    /\ ~panicked
    /\ exec[c].pc = "select"
    /\ exec[c].fn = "running"
    /\ IF cfg.syncChecks[c].DisablePanicRecovery
       THEN panicked' = TRUE /\ UNCHANGED exec
       ELSE exec' = [exec EXCEPT ![c].fn = recovered(r)] /\ UNCHANGED panicked
    /\ UNCHANGED <<clock, cfg, lifecycleVars, checkStateMtx, state, thr, calls, chk,
                   abandoned, periodicVars, listenerCalls, componentCalls, pure>>

\* StatusListener.onStateChange: the listener of check name is called with the
\* new state if the status changed.  calledWith is what it was called with before.
onStateChange(calledWith, name, oldState, newState) ==
    IF oldState.Status # newState.Status
    THEN Append(calledWith, [checkName |-> name, Status |-> newState.Status])
    ELSE calledWith

\* executeCheck that hands the new state to onStateChange as the old one too.
ExecFinish_staleOld(c, checkFuncResult) ==
    LET newState == createNextCheckState(checkFuncResult, cfg.syncChecks[c],
                                         exec[c].checkState, clock)
    IN /\ componentCalls' = onStateChange(componentCalls, c, newState, newState)
       /\ chk' = [chk EXCEPT !.resChan = Append(@, [checkName |-> c, newState |-> newState])]
       /\ exec' = [exec EXCEPT ![c] = [@ EXCEPT !.pc = "idle", !.fn = "none"]]

\* What executeCheck does once executeCheckFunc has returned checkFuncResult:
\* check.onStateChange is called and the next state goes into resChan.
ExecFinish(c, checkFuncResult) ==
    LET newState == createNextCheckState(checkFuncResult, cfg.syncChecks[c],
                                         exec[c].checkState, clock)
    IN /\ componentCalls' = onStateChange(componentCalls, c, exec[c].oldState, newState)
       /\ chk' = [chk EXCEPT !.resChan = Append(@, [checkName |-> c, newState |-> newState])]
       /\ exec' = [exec EXCEPT ![c] = [@ EXCEPT !.pc = "idle", !.fn = "none"]]

\* select in executeCheckFunc takes the case err := <-res.
ExecSelectRes(c) ==
    /\ ~panicked
    /\ exec[c].pc = "select"
    /\ exec[c].fn \in ChanResults
    /\ ExecFinish(c, exec[c].fn)
    /\ UNCHANGED <<clock, cfg, lifecycleVars, checkStateMtx, state, thr, calls,
                   abandoned, periodicVars, listenerCalls, panicked, pure>>

\* executeCheckFunc without the select: it waits for the check function.
ExecSelectDone_waits(c) ==
    /\ ~panicked
    /\ exec[c].pc = "select"
    /\ exec[c].fn \in ChanResults
    /\ ctxDone(exec[c].deadline, chk.parent)
    /\ ExecFinish(c, CheckTimeoutErr)
    /\ UNCHANGED <<clock, cfg, lifecycleVars, checkStateMtx, state, thr, calls, abandoned,
                   periodicVars, listenerCalls, panicked, pure>>

\* select in executeCheckFunc takes the case <-ctx.Done(); a check function
\* that is still running is left behind.
ExecSelectDone(c) ==
    /\ ~panicked
    /\ exec[c].pc = "select"
    /\ ctxDone(exec[c].deadline, chk.parent)
    /\ ExecFinish(c, CheckTimeoutErr)
    /\ abandoned' = [abandoned EXCEPT ![c] = IF exec[c].fn = "running" THEN @ + 1 ELSE @]
    /\ UNCHANGED <<clock, cfg, lifecycleVars, checkStateMtx, state, thr, calls,
                   periodicVars, listenerCalls, panicked, pure>>

\* A check function left behind whose late result is taken as a success.
AbandonedFnReturn_delivers(c) ==
    /\ ~panicked
    /\ abandoned[c] > 0
    /\ abandoned' = [abandoned EXCEPT ![c] = @ - 1]
    /\ state' = [state EXCEPT !.CheckState[c].Result = NilResult]
    /\ UNCHANGED <<clock, cfg, lifecycleVars, checkStateMtx, thr, calls, chk, exec,
                   periodicVars, listenerCalls, componentCalls, panicked, pure>>

\* A check function left behind returns; its result stays in the buffered
\* channel, which nobody reads.
AbandonedFnReturn(c) ==
    /\ ~panicked
    /\ abandoned[c] > 0
    /\ abandoned' = [abandoned EXCEPT ![c] = @ - 1]
    /\ UNCHANGED <<clock, cfg, lifecycleVars, checkStateMtx, state, thr, calls, chk, exec,
                   periodicVars, listenerCalls, componentCalls, panicked, pure>>

\* A check function left behind panics: the recovered error stays in the
\* buffered channel; without panic recovery the panic ends the process.
checkOf(c) == IF c \in SyncNames THEN cfg.syncChecks[c] ELSE cfg.asyncChecks[c]
AbandonedFnPanic(c) ==
    /\ ~panicked
    /\ abandoned[c] > 0
    /\ IF checkOf(c).DisablePanicRecovery
       THEN panicked' = TRUE /\ UNCHANGED abandoned
       ELSE abandoned' = [abandoned EXCEPT ![c] = @ - 1] /\ UNCHANGED panicked
    /\ UNCHANGED <<clock, cfg, lifecycleVars, checkStateMtx, state, thr, calls, chk, exec,
                   periodicVars, listenerCalls, componentCalls, pure>>

\* Check that stops collecting at the first failed result.
CheckReturn_failFast(k) ==
    /\ ~panicked
    /\ calls[k] = "collect"
    /\ checkStateMtx = k
    /\ \/ Len(chk.resChan) = chk.numInitiatedChecks
       \/ \E i \in 1..Len(chk.resChan) : chk.resChan[i].newState.Result # NilResult
    /\ \A c \in SyncNames : exec[c].pc # "spawned"
    /\ LET upd == updateState(state, listenerCalls, chk.resChan)
       IN /\ state' = upd.state
          /\ listenerCalls' = upd.listenerCalls
          /\ thr' = IF k.kind = "thr"
                    THEN [thr EXCEPT ![k.id] = [@ EXCEPT !.pc = "idle",
                                                         !.res = mapStateToCheckerResult(upd.state)]]
                    ELSE thr
    /\ calls' = [calls EXCEPT ![k] = "none"]
    /\ chk' = NoChk
    /\ checkStateMtx' = NoHolder
    /\ exec' = [c \in SyncNames |-> IdleExec]
    /\ UNCHANGED <<clock, cfg, lifecycleVars, abandoned, periodicVars, componentCalls,
                   panicked, pure>>

\* Check that resets the states of the periodic checks when it merges.
CheckReturn_resetsPeriodic(k) ==
    /\ ~panicked
    /\ calls[k] = "collect"
    /\ checkStateMtx = k
    /\ Len(chk.resChan) = chk.numInitiatedChecks
    /\ LET reset == [i \in 1..Cardinality(AsyncNames) |->
                        [checkName |-> CHOOSE c \in AsyncNames : TRUE,
                         newState |-> NewCheckState]]
           upd == updateState(state, listenerCalls, chk.resChan \o reset)
       IN /\ state' = upd.state
          /\ listenerCalls' = upd.listenerCalls
          /\ thr' = IF k.kind = "thr"
                    THEN [thr EXCEPT ![k.id] = [@ EXCEPT !.pc = "idle",
                                                         !.res = mapStateToCheckerResult(upd.state)]]
                    ELSE thr
    /\ calls' = [calls EXCEPT ![k] = "none"]
    /\ chk' = NoChk
    /\ checkStateMtx' = NoHolder
    /\ UNCHANGED <<clock, cfg, lifecycleVars, exec, abandoned, periodicVars, componentCalls,
                   panicked, pure>>

\* All initiated checks have delivered: updateState, mapStateToCheckerResult,
\* and the deferred cancel and Unlock.
CheckReturn(k) ==
    /\ ~panicked
    /\ calls[k] = "collect"
    /\ checkStateMtx = k
    /\ Len(chk.resChan) = chk.numInitiatedChecks
    /\ LET upd == updateState(state, listenerCalls, chk.resChan)
       IN /\ state' = upd.state
          /\ listenerCalls' = upd.listenerCalls
          /\ thr' = IF k.kind = "thr"
                    THEN [thr EXCEPT ![k.id] = [@ EXCEPT !.pc = "idle",
                                                         !.res = mapStateToCheckerResult(upd.state)]]
                    ELSE thr
    /\ calls' = [calls EXCEPT ![k] = "none"]
    /\ chk' = NoChk
    /\ checkStateMtx' = NoHolder
    /\ UNCHANGED <<clock, cfg, lifecycleVars, exec, abandoned, periodicVars, componentCalls,
                   panicked, pure>>

---------------------------------------------------------------------------
(* Start and Stop *)

syncVars == <<chk, exec>>
NumCtx == Cardinality(DOMAIN ctxs)

\* Start() up to its Unlock: with started set it returns at once; otherwise it
\* creates the context, sets cancel and started, starts the initial Check in
\* its own goroutine and goes on to the deferred startAsyncChecks.
StartCall(t) ==
    /\ ~panicked
    /\ thr[t].pc = "idle"
    /\ thr[t].n < MaxCalls
    /\ startedAndCountMtx = NoHolder
    /\ IF ~started
       THEN /\ NumCtx < MaxGen
            /\ LET g == NumCtx + 1
               IN /\ ctxs' = [h \in DOMAIN ctxs \cup {g} |-> IF h = g THEN FALSE ELSE ctxs[h]]
                  /\ cancel' = g
                  /\ started' = TRUE
                  /\ calls' = [calls EXCEPT ![InitCaller(g)] = "lock"]
                  /\ thr' = [thr EXCEPT ![t] = [@ EXCEPT !.pc = "startAsync", !.op = "Start",
                                                          !.ctx = g, !.n = @ + 1]]
       ELSE /\ thr' = [thr EXCEPT ![t] = [@ EXCEPT !.op = "Start", !.n = @ + 1]]
            /\ UNCHANGED <<ctxs, cancel, started, calls>>
    /\ UNCHANGED <<clock, cfg, asyncCheckCount, asyncWg, startedAndCountMtx, checkStateMtx,
                   state, syncVars, abandoned, periodicVars, listenerCalls, componentCalls, panicked, pure>>

\* startAsyncChecks: Lock.
StartAsyncLock(t) ==
    /\ ~panicked
    /\ thr[t].pc = "startAsync"
    /\ startedAndCountMtx = NoHolder
    /\ startedAndCountMtx' = ThreadCaller(t)
    /\ thr' = [thr EXCEPT ![t] = [@ EXCEPT !.pc = "spawnLoops", !.todo = AsyncNames]]
    /\ UNCHANGED <<clock, cfg, started, asyncCheckCount, cancel, asyncWg, ctxs, checkStateMtx,
                   state, calls, syncVars, abandoned, periodicVars, listenerCalls, componentCalls, panicked,
                   pure>>

\* startAsyncChecks: one iteration of the loop over cfg.asyncChecks.
StartAsyncSpawn(t, c) ==
    /\ ~panicked
    /\ thr[t].pc = "spawnLoops"
    /\ c \in thr[t].todo
    /\ asyncCheckCount' = asyncCheckCount + 1
    /\ asyncWg' = asyncWg + 1
    /\ loops' = [loops EXCEPT ![thr[t].ctx][c] = [IdleLoop EXCEPT !.pc = "start"]]
    /\ thr' = [thr EXCEPT ![t] = [@ EXCEPT !.todo = @ \ {c}]]
    /\ UNCHANGED <<clock, cfg, started, cancel, ctxs, startedAndCountMtx, checkStateMtx,
                   state, calls, syncVars, abandoned, prods, listenerCalls, componentCalls, panicked, pure>>

\* startAsyncChecks: the deferred Unlock; Start returns.
StartAsyncUnlock(t) ==
    /\ ~panicked
    /\ thr[t].pc = "spawnLoops"
    /\ thr[t].todo = {}
    /\ startedAndCountMtx' = NoHolder
    /\ thr' = [thr EXCEPT ![t] = [@ EXCEPT !.pc = "idle"]]
    /\ UNCHANGED <<clock, cfg, started, asyncCheckCount, cancel, asyncWg, ctxs, checkStateMtx,
                   state, calls, syncVars, abandoned, periodicVars, listenerCalls, componentCalls, panicked,
                   pure>>

\* Stop(): ck.cancel().  Calling the nil func of a Checker never started panics.
StopCall(t) ==
    /\ ~panicked
    /\ thr[t].pc = "idle"
    /\ thr[t].n < MaxCalls
    /\ IF cancel = NilCancel
       THEN /\ panicked' = TRUE
            /\ thr' = [thr EXCEPT ![t] = [@ EXCEPT !.pc = "panic", !.op = "Stop", !.n = @ + 1]]
            /\ UNCHANGED ctxs
       ELSE /\ ctxs' = [ctxs EXCEPT ![cancel] = TRUE]
            /\ thr' = [thr EXCEPT ![t] = [@ EXCEPT !.pc = "stopWait", !.op = "Stop",
                                                    !.ctx = cancel, !.n = @ + 1]]
            /\ UNCHANGED panicked
    /\ UNCHANGED <<clock, cfg, started, asyncCheckCount, cancel, asyncWg, startedAndCountMtx,
                   checkStateMtx, state, calls, syncVars, abandoned, periodicVars,
                   listenerCalls, componentCalls, pure>>

\* A Stop that also waits for the check functions in progress.
StopWait_joinsFunctions(t) ==
    /\ ~panicked
    /\ thr[t].pc = "stopWait"
    /\ asyncWg = 0
    /\ \A g \in Gens, c \in AsyncNames : prods[g][c].fn # "running"
    /\ thr' = [thr EXCEPT ![t] = [@ EXCEPT !.pc = "stopLock"]]
    /\ UNCHANGED <<clock, cfg, started, asyncCheckCount, cancel, asyncWg, ctxs,
                   startedAndCountMtx, checkStateMtx, state, calls, syncVars, abandoned,
                   periodicVars, listenerCalls, componentCalls, panicked, pure>>

\* Stop(): asyncWg.Wait() returns.
StopWait(t) ==
    /\ ~panicked
    /\ thr[t].pc = "stopWait"
    /\ asyncWg = 0
    /\ thr' = [thr EXCEPT ![t] = [@ EXCEPT !.pc = "stopLock"]]
    /\ UNCHANGED <<clock, cfg, started, asyncCheckCount, cancel, asyncWg, ctxs,
                   startedAndCountMtx, checkStateMtx, state, calls, syncVars, abandoned,
                   periodicVars, listenerCalls, componentCalls, panicked, pure>>

\* Stop that leaves asyncCheckCount as it is.
StopLock_keepsCount(t) ==
    /\ ~panicked
    /\ thr[t].pc = "stopLock"
    /\ startedAndCountMtx = NoHolder
    /\ started' = FALSE
    /\ thr' = [thr EXCEPT ![t] = [@ EXCEPT !.pc = "idle"]]
    /\ UNCHANGED <<clock, cfg, asyncCheckCount, cancel, asyncWg, ctxs, startedAndCountMtx,
                   checkStateMtx, state, calls, syncVars, abandoned, periodicVars,
                   listenerCalls, componentCalls, panicked, pure>>

\* Stop(): Lock, started = false, asyncCheckCount = 0, Unlock; Stop returns.
StopLock(t) ==
    /\ ~panicked
    /\ thr[t].pc = "stopLock"
    /\ startedAndCountMtx = NoHolder
    /\ started' = FALSE
    /\ asyncCheckCount' = 0
    /\ thr' = [thr EXCEPT ![t] = [@ EXCEPT !.pc = "idle"]]
    /\ UNCHANGED <<clock, cfg, cancel, asyncWg, ctxs, startedAndCountMtx, checkStateMtx,
                   state, calls, syncVars, abandoned, periodicVars, listenerCalls, componentCalls, panicked,
                   pure>>

---------------------------------------------------------------------------
(* The periodic loops: the goroutine of startAsyncChecks for check c under
   context g, and the goroutine of periodicCheck.start that feeds it *)

checkerVars == <<started, asyncCheckCount, cancel, ctxs, startedAndCountMtx, thr, calls,
                 chk, exec>>

\* newAsyncCheckInput and check.start: the producer goroutine starts.
LoopStart(g, c) ==
    /\ ~panicked
    /\ loops[g][c].pc = "start"
    /\ loops' = [loops EXCEPT ![g][c].pc = "getState"]
    /\ prods' = [prods EXCEPT ![g][c] =
            IF cfg.asyncChecks[c].initialDelay > 0
            THEN [IdleProd EXCEPT !.pc = "initialDelay",
                                  !.until = clock + cfg.asyncChecks[c].initialDelay]
            ELSE [IdleProd EXCEPT !.pc = "getInput"]]
    /\ UNCHANGED <<clock, cfg, checkerVars, asyncWg, checkStateMtx, state, abandoned,
                   listenerCalls, componentCalls, panicked, pure>>

\* getCheckStateWithLock, then the innermost interceptor function up to its
\* receive: updateStateForNextCheck closes waitForNext.
LoopGetState(g, c) ==
    /\ ~panicked
    /\ loops[g][c].pc = "getState"
    /\ checkStateMtx = NoHolder
    /\ loops' = [loops EXCEPT ![g][c] = [pc |-> "receive", oldState |-> state.CheckState[c],
                                         newState |-> state.CheckState[c]]]
    /\ IF prods[g][c].waitForNext = "closed"
       THEN panicked' = TRUE /\ UNCHANGED prods
       ELSE prods' = [prods EXCEPT ![g][c].waitForNext = "closed"] /\ UNCHANGED panicked
    /\ UNCHANGED <<clock, cfg, checkerVars, asyncWg, checkStateMtx, state, abandoned,
                   listenerCalls, componentCalls, pure>>

\* wg.Done of a loop goroutine that returns.
LoopExit(g, c) ==
    /\ asyncWg' = asyncWg - 1
    /\ loops' = [loops EXCEPT ![g][c] = IdleLoop]

\* receiveOnCheckChannel takes a result from the producer, which goes on to
\* wait for the update interval; the loop returns if the context has ended.
LoopReceiveResult(g, c) ==
    /\ ~panicked
    /\ loops[g][c].pc = "receive"
    /\ prods[g][c].pc = "send"
    /\ prods' = [prods EXCEPT ![g][c] = [@ EXCEPT !.pc = "wait", !.res = "none",
                     !.until = clock + cfg.asyncChecks[c].updateInterval]]
    /\ IF ctxs[g]
       THEN LoopExit(g, c)
       ELSE /\ loops' = [loops EXCEPT ![g][c] = [@ EXCEPT !.pc = "update", !.newState =
                    [createNextCheckState(prods[g][c].res, cfg.asyncChecks[c],
                                          loops[g][c].oldState, clock)
                        EXCEPT !.FirstCheckStartedAt = prods[g][c].firstCheckStartedAt]]]
            /\ UNCHANGED asyncWg
    /\ UNCHANGED <<clock, cfg, checkerVars, checkStateMtx, state, abandoned, listenerCalls, componentCalls,
                   panicked, pure>>

\* receiveOnCheckChannel that waits for the producer to close the channel.
LoopReceiveDone_channelOnly(g, c) ==
    /\ ~panicked
    /\ loops[g][c].pc = "receive"
    /\ prods[g][c].pc = "closed"
    /\ IF ctxs[g]
       THEN LoopExit(g, c)
       ELSE /\ loops' = [loops EXCEPT ![g][c].pc = "update"]
            /\ UNCHANGED asyncWg
    /\ UNCHANGED <<clock, cfg, checkerVars, checkStateMtx, state, abandoned, prods,
                   listenerCalls, componentCalls, panicked, pure>>

\* receiveOnCheckChannel finds the context done or the channel closed.
LoopReceiveDone(g, c) ==
    /\ ~panicked
    /\ loops[g][c].pc = "receive"
    /\ ctxs[g] \/ prods[g][c].pc = "closed"
    /\ IF ctxs[g]
       THEN LoopExit(g, c)
       ELSE /\ loops' = [loops EXCEPT ![g][c].pc = "update"]
            /\ UNCHANGED asyncWg
    /\ UNCHANGED <<clock, cfg, checkerVars, checkStateMtx, state, abandoned, prods,
                   listenerCalls, componentCalls, panicked, pure>>

\* The loop writing the next state without taking checkStateMtx.
LoopUpdate_unlocked(g, c) ==
    /\ ~panicked
    /\ loops[g][c].pc = "update"
    /\ LET upd == updateState(state, listenerCalls,
                              <<[checkName |-> c, newState |-> loops[g][c].newState]>>)
       IN /\ state' = upd.state
          /\ listenerCalls' = upd.listenerCalls
    /\ componentCalls' = onStateChange(componentCalls, c, loops[g][c].oldState,
                                       loops[g][c].newState)
    /\ loops' = [loops EXCEPT ![g][c].pc = "getState"]
    /\ UNCHANGED <<clock, cfg, checkerVars, asyncWg, checkStateMtx, abandoned, prods,
                   panicked, pure>>

\* updateStateWithLock, then check.onStateChange.
LoopUpdate(g, c) ==
    /\ ~panicked
    /\ loops[g][c].pc = "update"
    /\ checkStateMtx = NoHolder
    /\ LET upd == updateState(state, listenerCalls,
                              <<[checkName |-> c, newState |-> loops[g][c].newState]>>)
       IN /\ state' = upd.state
          /\ listenerCalls' = upd.listenerCalls
    /\ componentCalls' = onStateChange(componentCalls, c, loops[g][c].oldState,
                                       loops[g][c].newState)
    /\ loops' = [loops EXCEPT ![g][c].pc = "getState"]
    /\ UNCHANGED <<clock, cfg, checkerVars, asyncWg, checkStateMtx, abandoned, prods,
                   panicked, pure>>

\* waitForStopSignal returns false: the initial delay or the update interval is over.
ProdWaitElapsed(g, c) ==
    /\ ~panicked
    /\ prods[g][c].pc \in {"initialDelay", "wait"}
    /\ clock >= prods[g][c].until
    /\ prods' = [prods EXCEPT ![g][c].pc = "getInput"]
    /\ UNCHANGED <<clock, cfg, checkerVars, asyncWg, checkStateMtx, state, abandoned, loops,
                   listenerCalls, componentCalls, panicked, pure>>

\* waitForStopSignal returns true: the producer returns and closes its channel.
ProdWaitStopped(g, c) ==
    /\ ~panicked
    /\ prods[g][c].pc \in {"initialDelay", "wait"}
    /\ ctxs[g]
    /\ prods' = [prods EXCEPT ![g][c].pc = "closed"]
    /\ UNCHANGED <<clock, cfg, checkerVars, asyncWg, checkStateMtx, state, abandoned, loops,
                   listenerCalls, componentCalls, panicked, pure>>

\* GetInputForCheck returns once waitForNext is closed; the context of the run
\* gets the check's Timeout, if any, and executeCheckFunc starts the goroutine
\* of the check function.
ProdGetInput(g, c) ==
    /\ ~panicked
    /\ prods[g][c].pc = "getInput"
    /\ prods[g][c].waitForNext = "closed"
    /\ prods' = [prods EXCEPT ![g][c] = [@ EXCEPT
            !.pc = "select",
            !.waitForNext = "open",
            !.firstCheckStartedAt = IF IsZero(@) THEN clock ELSE @,
            !.deadline = IF cfg.asyncChecks[c].Timeout > 0
                         THEN clock + cfg.asyncChecks[c].Timeout ELSE NoDeadline,
            !.fn = "running"]]
    /\ UNCHANGED <<clock, cfg, checkerVars, asyncWg, checkStateMtx, state, abandoned, loops,
                   listenerCalls, componentCalls, panicked, pure>>

\* The periodic check function returns r.
ProdFnReturn(g, c, r) ==
    /\ ~panicked
    /\ prods[g][c].pc = "select"
    /\ prods[g][c].fn = "running"
    /\ prods' = [prods EXCEPT ![g][c].fn = r]
    /\ UNCHANGED <<clock, cfg, checkerVars, asyncWg, checkStateMtx, state, abandoned, loops,
                   listenerCalls, componentCalls, panicked, pure>>

\* The periodic check function panics with value r.
ProdFnPanic(g, c, r) ==
    /\ ~panicked
    /\ prods[g][c].pc = "select"
    /\ prods[g][c].fn = "running"
    /\ IF cfg.asyncChecks[c].DisablePanicRecovery
       THEN panicked' = TRUE /\ UNCHANGED prods
       ELSE prods' = [prods EXCEPT ![g][c].fn = recovered(r)] /\ UNCHANGED panicked
    /\ UNCHANGED <<clock, cfg, checkerVars, asyncWg, checkStateMtx, state, abandoned, loops,
                   listenerCalls, componentCalls, pure>>

\* select in executeCheckFunc takes the result; the producer blocks sending it.
ProdSelectRes(g, c) ==
    /\ ~panicked
    /\ prods[g][c].pc = "select"
    /\ prods[g][c].fn \in ChanResults
    /\ prods' = [prods EXCEPT ![g][c] = [@ EXCEPT !.pc = "send", !.res = prods[g][c].fn,
                                                    !.fn = "none"]]
    /\ UNCHANGED <<clock, cfg, checkerVars, asyncWg, checkStateMtx, state, abandoned, loops,
                   listenerCalls, componentCalls, panicked, pure>>

\* select in executeCheckFunc takes ctx.Done(); a check function that is still
\* running is left behind.
ProdSelectDone(g, c) ==
    /\ ~panicked
    /\ prods[g][c].pc = "select"
    /\ ctxDone(prods[g][c].deadline, g)
    /\ prods' = [prods EXCEPT ![g][c] = [@ EXCEPT !.pc = "send", !.res = CheckTimeoutErr,
                                                    !.fn = "none"]]
    /\ abandoned' = [abandoned EXCEPT ![c] = IF prods[g][c].fn = "running" THEN @ + 1 ELSE @]
    /\ UNCHANGED <<clock, cfg, checkerVars, asyncWg, checkStateMtx, state, loops,
                   listenerCalls, componentCalls, panicked, pure>>

---------------------------------------------------------------------------
(* The Checker with one periodic check and no synchronous check; two threads
   call Start, Stop and Check at any time *)

Init ==
    /\ newChecker(checkerConfig(NoChecks, [c \in {"periodic"} |-> CheckPeriodic]))
    /\ pure = [f |-> "none"]

PeriodicStep ==
    \/ \E g \in Gens, c \in AsyncNames : LoopStart(g, c)
    \/ \E g \in Gens, c \in AsyncNames : LoopGetState(g, c)
    \/ \E g \in Gens, c \in AsyncNames : LoopReceiveResult(g, c)
    \/ \E g \in Gens, c \in AsyncNames : LoopReceiveDone(g, c)
    \/ \E g \in Gens, c \in AsyncNames : LoopUpdate(g, c)
    \/ \E g \in Gens, c \in AsyncNames : ProdWaitElapsed(g, c)
    \/ \E g \in Gens, c \in AsyncNames : ProdWaitStopped(g, c)
    \/ \E g \in Gens, c \in AsyncNames : ProdGetInput(g, c)
    \/ \E g \in Gens, c \in AsyncNames, r \in FnResults : ProdFnReturn(g, c, r)
    \/ \E g \in Gens, c \in AsyncNames : ProdSelectRes(g, c)
    \/ \E g \in Gens, c \in AsyncNames : ProdSelectDone(g, c)
    \/ \E c \in AsyncNames : AbandonedFnReturn(c)

StartStep(t) ==
    \/ StartCall(t)
    \/ StartAsyncLock(t)
    \/ \E c \in AsyncNames : StartAsyncSpawn(t, c)
    \/ StartAsyncUnlock(t)

StopStep(t) ==
    \/ StopCall(t)
    \/ StopWait(t)
    \/ StopLock(t)

CheckStep ==
    \/ \E t \in Threads : CheckCall(t)
    \/ \E k \in Callers : CheckLock(k)
    \/ \E k \in Callers : CheckReturn(k)

Next ==
    \/ Tick /\ clock < Epoch + LifeHorizon
    \/ \E t \in Threads : StartStep(t) /\ Cardinality(DOMAIN ctxs') <= ConcGens
    \/ \E t \in Threads : StopStep(t)
    \/ CheckStep
    \/ PeriodicStep

Spec == Init /\ [][Next]_vars

\* Start and Stop are called one at a time: a thread calls one of them only
\* while no other thread is inside Start or Stop.  Check and the periodic
\* loops run concurrently with them.
InStart(t) == thr[t].pc \in {"startAsync", "spawnLoops"}
InStop(t) == thr[t].pc \in {"stopWait", "stopLock"}
LifecycleIdle == \A t \in Threads : ~InStart(t) /\ ~InStop(t)

MayCall(t) == thr[t].pc = "idle" => LifecycleIdle

NextSeq ==
    \/ Tick /\ clock < Epoch + LifeHorizon
    \/ \E t \in Threads : MayCall(t) /\ StartStep(t) /\ Cardinality(DOMAIN ctxs') <= ConcGens
    \/ \E t \in Threads : MayCall(t) /\ StopStep(t)
    \/ CheckStep
    \/ PeriodicStep

SpecSeq == Init /\ [][NextSeq]_vars

(* Steps of Start and Stop as seen by their caller *)
StartOnStarted(t) ==
    /\ thr[t].pc = "idle" /\ started
    /\ thr'[t].op = "Start" /\ thr'[t].n = thr[t].n + 1
StartReturns(t) ==
    /\ thr'[t].op = "Start" /\ thr'[t].pc = "idle"
    /\ thr[t].pc = "spawnLoops" \/ StartOnStarted(t)
StopCalled(t) ==
    /\ thr[t].pc = "idle"
    /\ thr'[t].op = "Stop" /\ thr'[t].n = thr[t].n + 1
StopReturns(t) == thr[t].pc = "stopLock" /\ thr'[t].pc = "idle"
LoopAlive(g, c) == loops[g][c].pc # "none"

\* C6: with Start and Stop called one at a time, the running periodic-check
\* count equals the number of configured periodic checks when Start returns and
\* 0 when Stop returns, it changes only inside a call of Start or Stop, and
\* Start on a started Checker launches no loop and no initial check and leaves
\* the count unchanged.
C6_CountFollowsStartStop ==
    /\ [][\A t \in Threads : StartReturns(t) =>
            asyncCheckCount' = Cardinality(AsyncNames)]_vars
    /\ [][\A t \in Threads : StopReturns(t) => asyncCheckCount' = 0]_vars
    /\ [][LifecycleIdle /\ LifecycleIdle' => asyncCheckCount' = asyncCheckCount]_vars
    /\ [][\A t \in Threads : StartOnStarted(t) =>
            /\ thr'[t].pc = "idle"
            /\ UNCHANGED <<asyncCheckCount, asyncWg, loops, prods, calls, ctxs, cancel>>]_vars

\* Start returned with the loops running, Start was called again, and Stop returned.
C6_Witness ==
    \E t \in Threads :
        /\ thr[t].op = "Stop" /\ thr[t].pc = "idle" /\ ~panicked
        /\ asyncCheckCount = 0
        /\ \E u \in Threads : u # t /\ thr[u].op = "Start" /\ thr[u].n = 2

\* C7: when Stop returns, no periodic loop goroutine launched by a Start that
\* was called before this Stop is alive.
C7_StopJoinsLoops ==
    [][\A t \in Threads : StopReturns(t) =>
          \A g \in Gens, c \in AsyncNames : g <= thr[t].ctx => ~LoopAlive(g, c)']_vars

\* C8: when Stop returns, no periodic check function is running, except those
\* already left behind by executeCheckFunc.
C8_StopWaitsForCheckFunctions ==
    [][\A t \in Threads : StopReturns(t) =>
          \A g \in Gens, c \in AsyncNames : prods'[g][c].fn # "running"]_vars

\* C9: Stop on a Checker that was never started returns normally and leaves
\* the started flag, the count and the component states unchanged.
C9_StopBeforeStartIsNoOp ==
    [][\A t \in Threads : StopCalled(t) /\ cancel = NilCancel =>
          /\ ~panicked'
          /\ UNCHANGED <<started, asyncCheckCount, state>>]_vars

\* C10: the status listener is called by exactly the state updates that change
\* the aggregate status, it receives the new aggregate status, and two
\* consecutive calls carry different statuses.
C10_ListenerOnStatusChange ==
    /\ [][IF state'.Status # state.Status
          THEN listenerCalls' = Append(listenerCalls, state'.Status)
          ELSE listenerCalls' = listenerCalls]_vars
    /\ [](\A i \in 1..(Len(listenerCalls) - 1) : listenerCalls[i] # listenerCalls[i + 1])

\* The listener was called for the change to up and again for the change to down.
C10_Witness ==
    /\ Len(listenerCalls) >= 2
    /\ listenerCalls[Len(listenerCalls)] = state.Status
    /\ \E g \in Gens, c \in AsyncNames : loops[g][c].pc = "getState"

---------------------------------------------------------------------------
(* The Checker with one synchronous and one periodic check: thread 1 calls
   Start and Stop, thread 2 calls Check *)

InitMixed ==
    /\ newChecker(checkerConfig([c \in {"fast"} |-> CheckFast],
                                [c \in {"periodic"} |-> CheckPeriodic]))
    /\ pure = [f |-> "none"]

SyncStep ==
    \/ \E k \in Callers : CheckLock(k)
    \/ \E c \in SyncNames : ExecStart(c)
    \/ \E c \in SyncNames, r \in FnResults : FnReturn(c, r)
    \/ \E c \in SyncNames : ExecSelectRes(c)
    \/ \E c \in SyncNames : ExecSelectDone(c)
    \/ \E c \in SyncNames : AbandonedFnReturn(c)
    \/ \E k \in Callers : CheckReturn(k)

NextMixed ==
    \/ Tick /\ clock < Epoch + LifeHorizon
    \/ StartStep(1) /\ Cardinality(DOMAIN ctxs') <= ConcGens
    \/ StopStep(1)
    \/ CheckCall(2)
    \/ SyncStep
    \/ PeriodicStep

SpecMixed == InitMixed /\ [][NextMixed]_vars

(* Steps in which an execution of a check completes *)
\* The goroutine of synchronous check c delivers the next state of c.
SyncExecuted(c) == exec[c].pc = "select" /\ exec'[c].pc = "idle"
DeliveredState(c) == chk'.resChan[Len(chk'.resChan)].newState
\* The loop of periodic check c writes the next state of c.
LoopUpdated(g, c) == loops[g][c].pc = "update" /\ loops'[g][c].pc = "getState"
Called(name, st) == Append(componentCalls, [checkName |-> name, Status |-> st.Status])

\* C11: an execution of a check calls the check's StatusListener with the new
\* state if the status of the component after it differs from the status
\* before it, and does not call it otherwise; nothing else calls it.
C11_ComponentListenerOnChange ==
    /\ [][\A c \in SyncNames : SyncExecuted(c) =>
            componentCalls' = IF DeliveredState(c).Status # state.CheckState[c].Status
                              THEN Called(c, DeliveredState(c))
                              ELSE componentCalls]_vars
    /\ [][\A g \in Gens, c \in AsyncNames : LoopUpdated(g, c) =>
            componentCalls' = IF state'.CheckState[c].Status # state.CheckState[c].Status
                              THEN Called(c, state'.CheckState[c])
                              ELSE componentCalls]_vars
    /\ [][componentCalls' # componentCalls =>
            \/ \E c \in SyncNames : SyncExecuted(c)
            \/ \E g \in Gens, c \in AsyncNames : LoopUpdated(g, c)]_vars

\* Both listeners were called, and a second failure in a row left a status down.
C11_Witness ==
    /\ \E i \in 1..Len(componentCalls) : componentCalls[i].checkName = "fast"
    /\ \E i \in 1..Len(componentCalls) : componentCalls[i].checkName = "periodic"
    /\ \E c \in AllNames : state.CheckState[c].ContiguousFails = 2

(* The same Checker with check functions that may panic: thread 1 calls
   Start, thread 2 calls Check, nobody calls Stop *)
PanicStep ==
    \/ \E c \in SyncNames, r \in PanicValues : FnPanic(c, r)
    \/ \E g \in Gens, c \in AsyncNames, r \in PanicValues : ProdFnPanic(g, c, r)
    \/ \E c \in SyncNames : AbandonedFnPanic(c)

\* The steps of the periodic loops whose context is not cancelled.
PeriodicRunStep ==
    \/ \E g \in Gens, c \in AsyncNames : LoopStart(g, c)
    \/ \E g \in Gens, c \in AsyncNames : LoopGetState(g, c)
    \/ \E g \in Gens, c \in AsyncNames : LoopReceiveResult(g, c)
    \/ \E g \in Gens, c \in AsyncNames : LoopUpdate(g, c)
    \/ \E g \in Gens, c \in AsyncNames : ProdWaitElapsed(g, c)
    \/ \E g \in Gens, c \in AsyncNames : ProdGetInput(g, c)
    \/ \E g \in Gens, c \in AsyncNames, r \in FnResults : ProdFnReturn(g, c, r)
    \/ \E g \in Gens, c \in AsyncNames : ProdSelectRes(g, c)

NextPanic ==
    \/ Tick /\ clock < Epoch + LifeHorizon
    \/ StartStep(1) /\ Cardinality(DOMAIN ctxs') <= ConcGens
    \/ CheckCall(2)
    \/ SyncStep
    \/ PeriodicRunStep
    \/ PanicStep

SpecPanic == InitMixed /\ [][NextPanic]_vars

RecoveredResults == {recovered(r) : r \in PanicValues}

\* C12: with panic recovery enabled a panic of a check function does not end
\* the process; an execution that takes the recovered value from the channel
\* records it as the error of a failure (the panic value itself if it is an
\* error, otherwise the error with its formatted text), and the status is the
\* one evaluateCheckStatus gives for a failure.
C12_PanicBecomesFailure ==
    /\ [](~panicked)
    /\ [](\A c \in AllNames : state.CheckState[c].Result \in RecoveredResults =>
            /\ state.CheckState[c].Result \in {PanicErr, "error: test message"}
            /\ state.CheckState[c].ContiguousFails > 0
            /\ state.CheckState[c].LastFailureAt = state.CheckState[c].LastCheckedAt
            /\ state.CheckState[c].Status = StatusDown)
    /\ [][\A c \in SyncNames : SyncExecuted(c) /\ exec[c].fn \in RecoveredResults =>
            DeliveredState(c).Result \in {exec[c].fn, CheckTimeoutErr}]_vars
    /\ [][\A g \in Gens, c \in AsyncNames :
            prods[g][c].pc = "select" /\ prods'[g][c].pc = "send"
                /\ prods[g][c].fn \in RecoveredResults =>
            prods'[g][c].res \in {prods[g][c].fn, CheckTimeoutErr}]_vars

\* A panic with an error value was recorded for the synchronous check and a
\* panic with a string for the periodic check.
C12_Witness ==
    /\ state.CheckState["fast"].Result = PanicErr
    /\ state.CheckState["periodic"].Result = "error: test message"
    /\ ~panicked

(* Who holds checkStateMtx while a check function runs *)
SyncFnRunning(c) == exec[c].pc = "select" /\ exec[c].fn = "running"
PeriodicFnRunning(g, c) == prods[g][c].pc = "select" /\ prods[g][c].fn = "running"
HeldByCheck == checkStateMtx \in Callers /\ calls[checkStateMtx] = "collect"

NextRestart ==
    \/ Tick /\ clock < Epoch + LifeHorizon
    \/ StartStep(1)
    \/ StopStep(1)
    \/ thr[1].op = "Stop" /\ StartStep(2)
    \/ \E k \in Callers : CheckLock(k)
    \/ \E k \in Callers : CheckReturn(k)
    \/ PeriodicStep

SpecRestart == Init /\ [][NextRestart]_vars

(* Steps that change the component states or the aggregate status *)
CheckMerges(k) == calls[k] = "collect" /\ calls'[k] = "none"
StateWritten(c) == state'.CheckState[c] # state.CheckState[c]

\* C14: the component states and the aggregate status change only in the
\* merge of a Check call that holds checkStateMtx or in the locked update of
\* a periodic loop, which needs the lock to be free; and the state a write
\* replaces is the state the written one was computed from.
C14_UpdatesSerialized ==
    /\ [][state' # state =>
            \/ checkStateMtx \in Callers /\ CheckMerges(checkStateMtx)
            \/ /\ checkStateMtx = NoHolder /\ checkStateMtx' = NoHolder
               /\ \E g \in Gens, c \in AsyncNames :
                     LoopUpdated(g, c) /\ \A d \in AllNames \ {c} : ~StateWritten(d)]_vars
    /\ [][\A c \in SyncNames : StateWritten(c) => exec[c].oldState = state.CheckState[c]]_vars
    /\ [][\A g \in Gens, c \in AsyncNames :
            LoopUpdated(g, c) => loops[g][c].oldState = state.CheckState[c]]_vars

\* A call of Check waits for the lock while a periodic loop is about to write
\* a state, after both components have been written at least once.
C14_Witness ==
    /\ \E k \in Callers : calls[k] = "lock"
    /\ \E g \in Gens, c \in AsyncNames :
          loops[g][c].pc = "update" /\ loops[g][c].newState # state.CheckState[c]
    /\ \A c \in AllNames : ~IsZero(state.CheckState[c].LastCheckedAt)

(* What a call of Check does to a periodic check *)
\* A step of a Check call or of the goroutine of a synchronous check.
CheckPathStep == calls' # calls \/ chk' # chk \/ exec' # exec
\* What mapStateToCheckerResult reports for a component with state st.
DetailsOf(st) == [Status |-> st.Status, Error |-> st.Result, Timestamp |-> st.LastCheckedAt]

\* C15: no step of a Check call starts the function of a periodic check or
\* touches its producer, its loop or its state; the function of a periodic
\* check is started only by its producer goroutine, its state is written only
\* by its loop, and a Check call reports that state as it is stored.
C15_CheckLeavesPeriodicAlone ==
    /\ [][CheckPathStep =>
            /\ UNCHANGED <<loops, prods>>
            /\ \A c \in AsyncNames : ~StateWritten(c)]_vars
    /\ [][\A g \in Gens, c \in AsyncNames :
            ~PeriodicFnRunning(g, c) /\ PeriodicFnRunning(g, c)' =>
                prods[g][c].pc = "getInput" /\ ~CheckPathStep]_vars
    /\ [][\A c \in AsyncNames : StateWritten(c) => \E g \in Gens : LoopUpdated(g, c)]_vars
    /\ [][\A t \in Threads, c \in AsyncNames : CheckMerges(ThreadCaller(t)) =>
            thr'[t].res.Details[c] = DetailsOf(state.CheckState[c])]_vars

\* A Check call of thread 2 has returned the state that the loop of the
\* periodic check wrote after a failed execution.
C15_Witness ==
    /\ thr[2].op = "Check" /\ thr[2].pc = "idle"
    /\ thr[2].res # NoResult
    /\ thr[2].res.Details["periodic"].Status = StatusDown
    /\ state.CheckState["periodic"].Status = StatusDown

(* Checks that have not been executed yet *)
NeverExecuted(st) == IsZero(st.LastCheckedAt)

\* C16: a component whose check has not completed an execution has status
\* unknown; the aggregate status is not up, and no Check call returns up,
\* while some configured check has not been executed.
C16_UnknownUntilFirstExecution ==
    /\ [](\A c \in AllNames :
            NeverExecuted(state.CheckState[c]) => state.CheckState[c].Status = StatusUnknown)
    /\ []((\E c \in AllNames : NeverExecuted(state.CheckState[c])) => state.Status # StatusUp)
    /\ [][\A t \in Threads :
            /\ CheckMerges(ThreadCaller(t))
            /\ \E c \in AllNames : NeverExecuted(state'.CheckState[c])
            => /\ thr'[t].res.Status # StatusUp
               /\ \E c \in AllNames : thr'[t].res.Details[c].Status = StatusUnknown]_vars

\* A Check call has returned unknown: the synchronous check succeeded and the
\* first run of the periodic check has not completed.
C16_Witness ==
    /\ thr[2].op = "Check" /\ thr[2].pc = "idle"
    /\ thr[2].res # NoResult
    /\ thr[2].res.Status = StatusUnknown
    /\ thr[2].res.Details["fast"].Status = StatusUp
    /\ NeverExecuted(state.CheckState["periodic"])
    /\ \E g \in Gens : PeriodicFnRunning(g, "periodic")

(* The Checker with three synchronous checks, one without a Timeout, one with
   a Timeout shorter and one with a Timeout longer than the timeout of the
   Checker; thread 1 calls Check once, with or without a deadline *)
InitDeadline ==
    /\ newChecker(checkerConfig([c \in {"fast", "slow", "tolerant"} |->
                                    IF c = "fast" THEN CheckFast
                                    ELSE IF c = "slow" THEN CheckSlow ELSE CheckTolerant],
                                [c \in {} |-> CheckPeriodic]))
    /\ pure = [f |-> "none"]

NextDeadline ==
    \/ Tick /\ clock < Epoch + LifeHorizon
    \/ thr[1].n = 0 /\ CheckCall(1)
    \/ thr[1].n = 0 /\ \E d \in 1..(MaxDuration + 1) : CheckCallWithDeadline(1, d)
    \/ SyncStep

SpecDeadline == InitDeadline /\ [][NextDeadline]_vars

\* The goroutine of synchronous check c derives the context of the execution.
SyncStarted(c) == exec[c].pc = "spawned" /\ exec'[c].pc = "select"
\* The deadline of the context the caller passed to the Check call in progress.
CallerDeadline == IF checkStateMtx.kind = "thr" THEN thr[checkStateMtx.id].deadline
                  ELSE NoDeadline
GlobalDeadline == chk.lockedAt + cfg.timeout
OwnDeadline(c) == IF cfg.syncChecks[c].Timeout > 0 THEN clock + cfg.syncChecks[c].Timeout
                  ELSE NoDeadline

\* C18: the function of a synchronous check runs under the earliest of the
\* deadline of the caller's context, the instant Check took the lock plus the
\* timeout of the Checker, and the start of the execution plus the Timeout of
\* the check if it has one; the deadline is never later than the one the
\* timeout of the Checker gives, and an execution is recorded as timed out
\* only once that deadline has passed.
C18_EarliestDeadline ==
    /\ [][\A c \in SyncNames : SyncStarted(c) =>
            /\ exec'[c].deadline = Min(CallerDeadline, Min(GlobalDeadline, OwnDeadline(c)))
            /\ exec'[c].deadline <= GlobalDeadline]_vars
    /\ [][\A c \in SyncNames :
            SyncExecuted(c) /\ DeliveredState(c).Result = CheckTimeoutErr =>
                clock >= exec[c].deadline]_vars
    /\ [][\A c \in SyncNames : SyncExecuted(c) /\ exec[c].fn = "running" =>
            DeliveredState(c).Result = CheckTimeoutErr]_vars

\* The check with the long Timeout was given up at the deadline of the
\* Checker's timeout, before its own Timeout had passed, in a call whose
\* caller set a later deadline.
C18_Witness ==
    /\ checkStateMtx = ThreadCaller(1)
    /\ thr[1].deadline = chk.lockedAt + MaxDuration + 1
    /\ \E i \in 1..Len(chk.resChan) :
          /\ chk.resChan[i].checkName = "slow"
          /\ chk.resChan[i].newState.Result = CheckTimeoutErr
          /\ chk.resChan[i].newState.LastCheckedAt = GlobalDeadline
          /\ chk.resChan[i].newState.FirstCheckStartedAt = chk.lockedAt + 1
    /\ exec["fast"].pc = "select" /\ exec["fast"].deadline < GlobalDeadline

(* The deadline of an execution of a periodic check *)
\* The producer goroutine of periodic check c derives the context of a run.
PeriodicStarted(g, c) == prods[g][c].pc = "getInput" /\ prods'[g][c].pc = "select"

\* C19: an execution of a periodic check runs under a deadline that is not
\* later than its start plus the timeout of the Checker, so that a function
\* that has not returned by then is recorded as timed out.
C19_GlobalTimeoutOnPeriodic ==
    [][\A g \in Gens, c \in AsyncNames : PeriodicStarted(g, c) =>
          prods'[g][c].deadline <= clock + cfg.timeout]_vars

\* C20: an execution of a synchronous check that ends before its deadline
\* records what the check function returned, whether Stop has been called or
\* not: Stop neither cancels it nor makes it a timeout.
C20_StopLeavesSyncChecksAlone ==
    [][\A c \in SyncNames : SyncExecuted(c) /\ clock < exec[c].deadline =>
          /\ exec[c].fn \in ChanResults
          /\ DeliveredState(c).Result = exec[c].fn]_vars

(* What Stop waits for *)
\* The loop of periodic check c under context g waits for checkStateMtx, in
\* getCheckStateWithLock or in updateStateWithLock.
LoopNeedsLock(g, c) == loops[g][c].pc \in {"getState", "update"}
\* Stop waits in asyncWg.Wait() and every loop still alive waits for the lock
\* of a Check call of a user that waits for a check function to return before
\* its deadline.
StopWaitsForCheck(t) ==
    /\ thr[t].pc = "stopWait"
    /\ asyncWg > 0
    /\ \A g \in Gens, c \in AsyncNames : LoopAlive(g, c) => LoopNeedsLock(g, c)
    /\ HeldByCheck /\ checkStateMtx.kind = "thr"
    /\ \E s \in SyncNames : SyncFnRunning(s) /\ clock < exec[s].deadline
    /\ \E s \in SyncNames : SyncFnRunning(s)

\* C21: Stop never waits for a synchronous check in flight: while Stop waits
\* for the loops, some loop can go on without the Check call in progress
\* releasing the lock.
C21_StopDoesNotWaitForSyncChecks ==
    \A t \in Threads : ~StopWaitsForCheck(t)

(* The Checker with one periodic check; thread 1 calls Start and Stop.  The
   goroutines of Stop, of the loops and of the initial check are scheduled
   fairly; nothing is assumed about the clock, the producer goroutines and the
   check functions *)
NextStop ==
    \/ Tick /\ clock < Epoch + LifeHorizon
    \/ StartStep(1) /\ Cardinality(DOMAIN ctxs') <= ConcGens
    \/ StopStep(1)
    \/ \E k \in Callers : CheckLock(k)
    \/ \E k \in Callers : CheckReturn(k)
    \/ PeriodicStep

\* The steps of the goroutine of startAsyncChecks for check c under context g.
LoopStep(g, c) ==
    \/ LoopStart(g, c)
    \/ LoopGetState(g, c)
    \/ LoopReceiveResult(g, c)
    \/ LoopReceiveDone(g, c)
    \/ LoopUpdate(g, c)

StopProgress ==
    \/ StopStep(1)
    \/ \E g \in Gens, c \in AsyncNames : LoopStep(g, c)
    \/ \E k \in Callers : CheckLock(k)
    \/ \E k \in Callers : CheckReturn(k)

FairSpecStop == Init /\ [][NextStop]_vars /\ WF_vars(StopProgress)

\* The producer of check c under context g is waiting for its initial delay or
\* its update interval, which has not elapsed.
WaitPending(g, c) == prods[g][c].pc \in {"initialDelay", "wait"} /\ clock < prods[g][c].until

\* C22: a call of Stop returns whatever the loop and its producer are doing,
\* even if the clock does not advance and the producer makes no step: a
\* pending initial delay or update interval does not hold it up.
C22_StopDoesNotWaitForDelays ==
    (thr[1].pc \in {"stopWait", "stopLock"}) ~> (thr[1].pc = "idle" /\ thr[1].op = "Stop")

\* Stop has returned while the producer is still in a wait that has not elapsed.
C22_Witness ==
    /\ thr[1].op = "Stop" /\ thr[1].pc = "idle" /\ ~panicked
    /\ \E g \in Gens, c \in AsyncNames :
          WaitPending(g, c) /\ prods[g][c].pc = "wait" /\ ~LoopAlive(g, c)

(* The Checker with one periodic check that tolerates failures for
   MaxTimeInError; thread 1 calls Start and Stop *)
InitTolerant ==
    /\ newChecker(checkerConfig(NoChecks, [c \in {"periodic"} |-> CheckPeriodicTolerant]))
    /\ pure = [f |-> "none"]

SpecTolerant == InitTolerant /\ [][NextStop]_vars

\* The status evaluateCheckStatus gives for the stored state st of check c at
\* the instant of its last execution.
EvaluatedStatus(c, st) ==
    evaluateCheckStatus(st, checkOf(c).MaxTimeInError, checkOf(c).MaxContiguousFails,
                        st.LastCheckedAt, st.LastCheckedAt)

\* C23: the stored status of every component is the status evaluateCheckStatus
\* gives for the state it is stored with and the thresholds of the check.
C23_StatusIsEvaluated ==
    \A c \in AllNames : state.CheckState[c].Status = EvaluatedStatus(c, state.CheckState[c])

(* The counter of contiguous failures *)
\* The counter after an execution that ended with state new, if it was old before.
CountsFrom(old, new) ==
    new.ContiguousFails = IF new.Result = NilResult THEN 0 ELSE old.ContiguousFails + 1

\* C24: a component whose counter of contiguous failures is 0 has a nil
\* result (and a component never executed has counter 0 and status unknown);
\* an execution that succeeds sets the counter to 0 and an execution that
\* fails, by a returned error, a timeout or a recovered panic, adds 1 to it;
\* nothing else changes it.
C24_ContiguousFails ==
    /\ [](\A c \in AllNames :
            /\ state.CheckState[c].ContiguousFails = 0 => state.CheckState[c].Result = NilResult
            /\ NeverExecuted(state.CheckState[c]) =>
                 /\ state.CheckState[c].ContiguousFails = 0
                 /\ state.CheckState[c].Status = StatusUnknown)
    /\ [][\A c \in SyncNames : SyncExecuted(c) =>
            CountsFrom(state.CheckState[c], DeliveredState(c))]_vars
    /\ [][\A c \in AllNames : StateWritten(c) =>
            CountsFrom(state.CheckState[c], state'.CheckState[c])]_vars
    /\ [][\A g \in Gens, c \in AsyncNames : LoopUpdated(g, c) => StateWritten(c)]_vars

\* Two failures in a row of the synchronous check, the second a recovered
\* panic, and a success of the periodic check after a failure.
C24_Witness ==
    /\ state.CheckState["fast"].ContiguousFails = 2
    /\ state.CheckState["fast"].Result \in RecoveredResults
    /\ state.CheckState["periodic"].ContiguousFails = 0
    /\ state.CheckState["periodic"].LastFailureAt # ZeroTime

\* C25: once the FirstCheckStartedAt of a component is set, no step changes it.
C25_FirstCheckStartedAtSetOnce ==
    [][\A c \in AllNames : ~IsZero(state.CheckState[c].FirstCheckStartedAt) =>
          state'.CheckState[c].FirstCheckStartedAt
              = state.CheckState[c].FirstCheckStartedAt]_vars

(* The aggregate status *)
\* The most critical of the statuses in S: down before unknown before up.
WorstStatus(S) ==
    IF StatusDown \in S THEN StatusDown
    ELSE IF StatusUnknown \in S THEN StatusUnknown ELSE StatusUp

\* C26: the stored aggregate status is the most critical status among the
\* stored component states, and the status of a result returned by Check is
\* the most critical status among the component states at its return, which
\* are the ones it reports.
C26_AggregateIsCurrent ==
    /\ [](state.Status = WorstStatus({state.CheckState[c].Status : c \in AllNames}))
    /\ [][\A t \in Threads : CheckMerges(ThreadCaller(t)) =>
            /\ thr'[t].res.Status
                 = WorstStatus({state'.CheckState[c].Status : c \in AllNames})
            /\ thr'[t].res.Status
                 = WorstStatus({thr'[t].res.Details[c].Status : c \in AllNames})]_vars

\* A Check call has returned down: the synchronous check is up and the
\* periodic check is down.
C26_Witness ==
    /\ thr[2].op = "Check" /\ thr[2].pc = "idle"
    /\ thr[2].res # NoResult
    /\ thr[2].res.Status = StatusDown
    /\ thr[2].res.Details["fast"].Status = StatusUp
    /\ thr[2].res.Details["periodic"].Status = StatusDown

(* The count threshold *)
\* C27: a check with MaxContiguousFails = N is up while it has failed at most
\* N times in a row, whatever time has passed; it is down only from failure
\* N + 1 on.
C27_AllowedToFailNTimes ==
    \A c \in AllNames :
        (/\ ~IsZero(state.CheckState[c].LastCheckedAt)
         /\ state.CheckState[c].ContiguousFails <= checkOf(c).MaxContiguousFails)
            => state.CheckState[c].Status = StatusUp

(* The Checker with checks that disable panic recovery: thread 1 calls Start,
   thread 2 calls Check, the check functions may panic *)
InitNoRecovery ==
    /\ newChecker(checkerConfig([c \in {"fast"} |-> CheckFastNoRecovery],
                                [c \in {"periodic"} |-> CheckPeriodicNoRecovery]))
    /\ pure = [f |-> "none"]

SpecNoRecovery == InitNoRecovery /\ [][NextPanic]_vars

\* C28: with DisablePanicRecovery a panic of the check function is never
\* recorded as a failure; the panic of a synchronous check's function ends
\* the call of Check that executes it, and the panic of a periodic check's
\* function ends the loop of that check.
C28_PanicPropagates ==
    /\ [](\A c \in AllNames : checkOf(c).DisablePanicRecovery
                => state.CheckState[c].Result \notin RecoveredResults)
    /\ [][((\E c \in SyncNames, r \in PanicValues : FnPanic(c, r)) /\ panicked')
            => (checkStateMtx \in Callers /\ calls[checkStateMtx] # "none"
                    /\ calls'[checkStateMtx] = "none")]_vars
    /\ [][\A g \in Gens, c \in AsyncNames :
            ((\E r \in PanicValues : ProdFnPanic(g, c, r)) /\ panicked')
                => (LoopAlive(g, c) /\ loops'[g][c].pc = "none")]_vars

(* The periodic loop over time: the Checker with one periodic check, thread 1
   calls Start and Stop.  Time passes and the goroutines of the Checker are
   scheduled fairly; nothing is assumed about the check function, which may
   never return *)
NextLoop ==
    \/ Tick
    \/ StartStep(1) /\ Cardinality(DOMAIN ctxs') <= ConcGens
    \/ StopStep(1)
    \/ \E k \in Callers : CheckLock(k)
    \/ \E k \in Callers : CheckReturn(k)
    \/ PeriodicStep

\* The periodic check of this Checker.
LoopChecks == {"periodic"}

\* The steps of the producer goroutine of check c under context g, the return
\* of the check function excepted.
ProdStep(g, c) ==
    \/ ProdWaitElapsed(g, c)
    \/ ProdWaitStopped(g, c)
    \/ ProdGetInput(g, c)
    \/ ProdSelectRes(g, c)
    \/ ProdSelectDone(g, c)

LoopProgress ==
    \/ \E g \in Gens, c \in AsyncNames : LoopStep(g, c)
    \/ \E g \in Gens, c \in AsyncNames : ProdStep(g, c)
    \/ \E k \in Callers : CheckLock(k)
    \/ \E k \in Callers : CheckReturn(k)
    \/ StartStep(1)

FairSpecLoop == Init /\ [][NextLoop]_vars /\ WF_vars(Tick) /\ WF_vars(LoopProgress)

\* The context of generation g has been cancelled by Stop.
Cancelled(g) == g \in DOMAIN ctxs /\ ctxs[g]

\* The producer of check c under context g begins an execution of the check
\* function in this step.
ExecutionStarts(g, c) == prods[g][c].pc # "select" /\ prods'[g][c].pc = "select"

\* C29: while the Checker is not stopped, the first execution of a periodic
\* check comes after its initial delay; every further execution comes after the loop has stored the result
\* of the previous one and an update interval has passed since that result,
\* so that the results the loop stores are an update interval apart; and while
\* the Checker is not stopped an execution that has begun is followed by the
\* wait for the update interval, and that wait by the next execution.
C29_PeriodicLoopRepeats ==
    /\ [][\A g \in Gens, c \in AsyncNames : (ExecutionStarts(g, c) /\ ~Cancelled(g)) =>
            /\ clock >= prods[g][c].until
            /\ loops[g][c].pc = "receive"
            /\ loops[g][c].oldState = state.CheckState[c]
            /\ ~IsZero(state.CheckState[c].LastCheckedAt) =>
                  clock >= state.CheckState[c].LastCheckedAt
                             + cfg.asyncChecks[c].updateInterval]_vars
    /\ [][\A c \in AsyncNames :
            (StateWritten(c) /\ ~IsZero(state.CheckState[c].LastCheckedAt)) =>
                state'.CheckState[c].LastCheckedAt
                    >= state.CheckState[c].LastCheckedAt + cfg.asyncChecks[c].updateInterval]_vars
    /\ \A g \in Gens, c \in LoopChecks :
          /\ (PeriodicFnRunning(g, c)
                 /\ clock + cfg.timeout + cfg.asyncChecks[c].updateInterval <= MaxTime)
               ~> (prods[g][c].pc = "wait" \/ Cancelled(g) \/ panicked)
          /\ (prods[g][c].pc = "wait" /\ prods[g][c].until <= MaxTime)
               ~> (prods[g][c].pc = "select" \/ Cancelled(g) \/ panicked)

(* Executions given up at their deadline *)
\* The goroutine of a function of check c that was left behind ends in this step.
LateReturn(c) == abandoned'[c] < abandoned[c]

ArrivalOrders(s) ==
    LET n == Len(s)
        perms == {p \in [1..n -> 1..n] : \A a, b \in 1..n : p[a] = p[b] => a = b}
    IN {[i \in 1..n |-> s[p[i]]] : p \in perms}

\* C31: the state a call of Check stores in its merge, the aggregate status
\* and the calls of the system listener are the same for every order in which
\* the results of its checks could have arrived.
C31_MergeIsOrderIndependent ==
    [][\A k \in Callers : CheckMerges(k) =>
          \A o \in ArrivalOrders(chk.resChan) :
              /\ updateState(state, listenerCalls, o).state = state'
              /\ updateState(state, listenerCalls, o).listenerCalls = listenerCalls']_vars

\* Both checks have delivered, the tolerant one first, with results that
\* change the status of each component in opposite directions.
C31_Witness ==
    /\ checkStateMtx \in Callers /\ calls[checkStateMtx] = "collect"
    /\ Len(chk.resChan) = 2
    /\ chk.resChan[1].checkName = "tolerant" /\ chk.resChan[2].checkName = "fast"
    /\ chk.resChan[1].newState.Status = StatusDown
    /\ chk.resChan[2].newState.Status = StatusUp
    /\ state.CheckState["fast"].Status = StatusDown
    /\ state.CheckState["tolerant"].Status = StatusUp

(* The order of the listener calls *)
\* The listeners the loop of periodic check c calls in its update, in the order
\* of the calls: updateStateWithLock, which calls the system listener, and then
\* check.onStateChange.
LoopUpdateCalls(g, c) ==
    LET upd == updateState(state, listenerCalls,
                           <<[checkName |-> c, newState |-> loops[g][c].newState]>>)
        system == IF upd.listenerCalls # listenerCalls THEN <<"StatusListener">> ELSE <<>>
        component == IF onStateChange(componentCalls, c, loops[g][c].oldState,
                                      loops[g][c].newState) # componentCalls
                     THEN <<"ComponentStatusListener">> ELSE <<>>
    IN system \o component

\* C32: when an execution changes the status of its component and the
\* aggregate status, the listener of the component is called before the system
\* listener: for a synchronous check the listeners of the components have been
\* called when the merge calls the system listener, and the update of a
\* periodic loop calls the listener of the component first.
C32_ComponentListenerFirst ==
    /\ [][\A k \in Callers : (CheckMerges(k) /\ listenerCalls' # listenerCalls) =>
            /\ componentCalls' = componentCalls
            /\ \A i \in 1..Len(chk.resChan) :
                 LET r == chk.resChan[i]
                 IN r.newState.Status # state.CheckState[r.checkName].Status =>
                      \E j \in 1..Len(componentCalls) :
                          componentCalls[j] = [checkName |-> r.checkName,
                                               Status |-> r.newState.Status]]_vars
    /\ [][\A g \in Gens, c \in AsyncNames : LoopUpdated(g, c) =>
            /\ (listenerCalls' # listenerCalls)
                 = (\E i \in 1..Len(LoopUpdateCalls(g, c)) :
                        LoopUpdateCalls(g, c)[i] = "StatusListener")
            /\ (componentCalls' # componentCalls)
                 = (\E i \in 1..Len(LoopUpdateCalls(g, c)) :
                        LoopUpdateCalls(g, c)[i] = "ComponentStatusListener")
            /\ LoopUpdateCalls(g, c) # <<"StatusListener", "ComponentStatusListener">>]_vars

(* The time stamps of an execution *)
\* The next state new of an execution that completed now with the state old
\* before it carries the stamps of createNextCheckState.
Stamped(old, new) ==
    /\ new.LastCheckedAt = clock
    /\ IF new.Result = NilResult
       THEN new.LastSuccessAt = clock /\ new.LastFailureAt = old.LastFailureAt
       ELSE new.LastFailureAt = clock /\ new.LastSuccessAt = old.LastSuccessAt
    /\ ~IsZero(old.FirstCheckStartedAt) => new.FirstCheckStartedAt = old.FirstCheckStartedAt

\* The loop of periodic check c takes the result of an execution in this step.
LoopReceived(g, c) ==
    loops[g][c].pc = "receive" /\ prods[g][c].pc = "send" /\ loops'[g][c].pc = "update"

\* C34: the next state of every completed execution, of a synchronous or a
\* periodic check, has LastCheckedAt at the instant of completion; after a
\* success LastSuccessAt is that instant and LastFailureAt is as before, after
\* a failure LastFailureAt is that instant and LastSuccessAt is as before; a
\* FirstCheckStartedAt that was set is as before.
C34_TimeStamps ==
    /\ [][\A c \in SyncNames : SyncExecuted(c) =>
            Stamped(exec[c].oldState, DeliveredState(c))]_vars
    /\ [][\A g \in Gens, c \in AsyncNames : LoopReceived(g, c) =>
            Stamped(loops[g][c].oldState, loops'[g][c].newState)]_vars

\* The periodic loops that are alive.
AliveLoops == {p \in Gens \X AsyncNames : LoopAlive(p[1], p[2])}

\* C35: whenever no call of Start or Stop is in progress, whatever the
\* interleaving of the concurrent calls before, the running periodic-check
\* count is 0 or the number of configured periodic checks, it equals the number
\* of periodic loops alive, and it is 0 when the Checker is not started.
C35_CountIsConsistent ==
    (LifecycleIdle /\ ~panicked) =>
        /\ asyncCheckCount \in {0, Cardinality(AsyncNames)}
        /\ asyncCheckCount = Cardinality(AliveLoops)
        /\ ~started => asyncCheckCount = 0

\* The producer goroutine of check c under context g can take no further
\* step: it sends on the unbuffered check channel, or waits for waitForNext
\* to be closed, and the loop goroutine, the only receiver and the only one
\* to close waitForNext, has returned.  Once true this stays true.
ProducerStuck(g, c) ==
    /\ ~LoopAlive(g, c)
    /\ \/ prods[g][c].pc = "send"
       \/ prods[g][c].pc = "getInput" /\ prods[g][c].waitForNext = "open"

\* C36: after Stop has cancelled the periodic loops, no producer goroutine of
\* a periodic check is left blocked for ever, sending its result on the check
\* channel or waiting for the input of its next run, behind a loop goroutine
\* that has returned.
C36_ProducersTerminate ==
    \A g \in Gens, c \in AsyncNames : ~ProducerStuck(g, c)

\* An execution of the function of periodic check c started under context g
\* is in progress and executeCheckFunc has not given it up.
Executing(g, c) == prods[g][c].fn = "running"

\* C37: at any time at most one execution of a periodic check's function
\* that has not been abandoned is in progress, also across Stop and Start:
\* the loops of two Starts never execute the function of the same check at
\* the same time, and a loop never writes the component state once the loop
\* of a later Start for the same check is alive.
C37_OneExecutionPerCheck ==
    /\ [](\A c \in LoopChecks : \A g1, g2 \in Gens :
            Executing(g1, c) /\ Executing(g2, c) => g1 = g2)
    /\ [][\A c \in LoopChecks : \A g1, g2 \in Gens :
            LoopUpdated(g1, c) /\ g1 < g2 => ~LoopAlive(g2, c)]_vars

\* A function of a periodic check without Timeout is running: nothing but
\* the cancellation by Stop ends the wait of executeCheckFunc for it.
HungWithoutTimeout(g, c) == Executing(g, c) /\ cfg.asyncChecks[c].Timeout = 0

---------------------------------------------------------------------------
(* The Checker with synchronous checks only, and callers of Check *)

InitSync ==
    /\ newChecker(checkerConfig([c \in {"fast", "tolerant"} |->
                                    IF c = "fast" THEN CheckFast ELSE CheckTolerant],
                                [c \in {} |-> CheckPeriodic]))
    /\ pure = [f |-> "none"]

NextSync ==
    \/ Tick
    \/ \E t \in Threads : CheckCall(t)
    \/ \E k \in Callers : CheckLock(k)
    \/ \E c \in SyncNames : ExecStart(c)
    \/ \E c \in SyncNames, r \in FnResults : FnReturn(c, r)
    \/ \E c \in SyncNames : ExecSelectRes(c)
    \/ \E c \in SyncNames : ExecSelectDone(c)
    \/ \E c \in SyncNames : AbandonedFnReturn(c)
    \/ \E k \in Callers : CheckReturn(k)

SpecSync == InitSync /\ [][NextSync]_vars

\* The first Check call of thread 1, made as soon as the Checker exists.
CheckCallFirst ==
    /\ thr[1].op = "none"
    /\ clock = Epoch
    /\ CheckCall(1)

\* One call of Check: the behaviours in which thread 1 calls Check once.
NextSyncOne ==
    \/ Tick
    \/ CheckCallFirst
    \/ CheckLock(ThreadCaller(1))
    \/ \E c \in SyncNames : ExecStart(c)
    \/ \E c \in SyncNames, r \in FnResults : FnReturn(c, r)
    \/ \E c \in SyncNames : ExecSelectRes(c)
    \/ \E c \in SyncNames : ExecSelectDone(c)
    \/ \E c \in SyncNames : AbandonedFnReturn(c)
    \/ CheckReturn(ThreadCaller(1))

\* A step of the clock or of a goroutine of the Checker; a return of a check
\* function, which is user code, is none.
CheckerStep ==
    \/ Tick
    \/ \E c \in SyncNames : ExecStart(c)
    \/ \E c \in SyncNames : ExecSelectRes(c)
    \/ \E c \in SyncNames : ExecSelectDone(c)
    \/ CheckReturn(ThreadCaller(1))

\* The clock advances and the scheduler runs the goroutines of the Checker:
\* while one of them can take a step, one eventually does.  A check function
\* need not ever return.
FairSpecSync == InitSync /\ [][NextSyncOne]_vars /\ WF_vars(CheckerStep)

\* The names of the checks that have delivered to resChan.
Delivered == {chk.resChan[i].checkName : i \in 1..Len(chk.resChan)}
\* The instant at which the Check that holds the lock took it.
LockedAt == chk.lockedAt
\* A check state lies within the cache TTL of its last execution at instant now.
WithinTTL(st, now) == st.LastCheckedAt # ZeroTime /\ now - st.LastCheckedAt <= cfg.cacheTTL
CheckLocks(k) == calls[k] = "lock" /\ calls'[k] = "collect"
CheckReturns(k) == calls[k] = "collect" /\ calls'[k] = "none"

\* C3: a Check call within the cache TTL of a synchronous check's last
\* execution does not invoke its function and leaves its state, which is
\* aggregated, unchanged; a call after the TTL has expired invokes it again;
\* calls are serialised, so no function is invoked while its state is fresh.
C3_CacheTTL ==
    [][/\ \A k \in Callers : CheckLocks(k) =>
             \A c \in SyncNames :
                /\ WithinTTL(state.CheckState[c], clock) => exec'[c].pc = "idle"
                /\ ~WithinTTL(state.CheckState[c], clock) => exec'[c].pc = "spawned"
       /\ \A c \in SyncNames :
             (exec[c].fn # "running" /\ exec'[c].fn = "running") =>
                /\ ~WithinTTL(state.CheckState[c], clock)
                /\ exec[c].pc = "spawned"
       /\ \A k \in Callers : CheckReturns(k) =>
             \A c \in SyncNames \ Delivered :
                /\ state'.CheckState[c] = state.CheckState[c]
                /\ criticality(state'.Status) >= criticality(state.CheckState[c].Status)
      ]_vars

\* A Check call skips a check that ran less than a TTL ago, after another
\* check has been executed twice.
C3_Witness ==
    /\ \E k \in Callers : calls[k] = "collect"
    /\ \E c \in SyncNames :
          /\ exec[c].pc = "idle"
          /\ c \notin Delivered
          /\ WithinTTL(state.CheckState[c], clock)
    /\ \E c \in SyncNames : state.CheckState[c].ContiguousFails >= 2

\* C4: a Check call that holds the lock returns although a check function may
\* never return; a function that has not returned is recorded as CheckTimedOut,
\* and only once its deadline has passed; every other recorded result is the
\* value the function returned.
C4_CheckReturnsDespiteHungFunction ==
    /\ (calls[ThreadCaller(1)] = "collect") ~> (calls[ThreadCaller(1)] = "none")
    /\ [][\A c \in SyncNames :
            (exec[c].pc = "select" /\ exec'[c].pc = "idle") =>
               LET r == chk'.resChan[Len(chk'.resChan)]
               IN /\ r.checkName = c
                  /\ exec[c].fn = "running" =>
                        (r.newState.Result = CheckTimeoutErr /\ clock >= exec[c].deadline)
                  /\ r.newState.Result # CheckTimeoutErr => r.newState.Result = exec[c].fn
         ]_vars

\* A Check call has returned the fast check as timed out and the other check's
\* real result while the function of the fast check is still running.
C4_Witness ==
    \E t \in Threads :
        /\ thr[t].pc = "idle"
        /\ thr[t].res.Status # "none"
        /\ thr[t].res.Details["fast"].Error = CheckTimeoutErr
        /\ thr[t].res.Details["tolerant"].Error = NilResult
        /\ thr[t].res.Details["tolerant"].Timestamp = thr[t].res.Details["fast"].Timestamp
        /\ abandoned["fast"] > 0

\* C5: when a Check call returns, every check that was due in the call has its
\* own result recorded, whatever the other checks returned; the checks that
\* were not due keep their state; and no failure ends the process.
C5_ErrorsContained ==
    /\ [][\A k \in Callers : CheckReturns(k) =>
            /\ \A c \in SyncNames :
                  IF ~WithinTTL(state.CheckState[c], LockedAt)
                  THEN /\ state'.CheckState[c].LastCheckedAt >= LockedAt
                       /\ \E i \in 1..Len(chk.resChan) :
                             chk.resChan[i] = [checkName |-> c, newState |-> state'.CheckState[c]]
                  ELSE state'.CheckState[c] = state.CheckState[c]
            /\ state'.Status = aggregateStatus(state'.CheckState)
         ]_vars
    /\ [](~panicked)

\* A Check call has returned one check failed and down, the other succeeded.
C5_Witness ==
    \E t \in Threads :
        /\ thr[t].pc = "idle"
        /\ thr[t].res.Status = StatusDown
        /\ thr[t].res.Details["fast"].Error = CheckErr
        /\ thr[t].res.Details["fast"].Status = StatusDown
        /\ thr[t].res.Details["tolerant"].Error = NilResult
        /\ thr[t].res.Details["tolerant"].Status = StatusUp
        /\ thr[t].res.Details["tolerant"].Timestamp >= thr[t].res.Details["fast"].Timestamp

---------------------------------------------------------------------------
(* aggregateStatus applied to every map of up to three component states *)

AggNames == {"check1", "check2", "check3"}
AggInputs ==
    UNION {{[c \in S |-> [NewCheckState EXCEPT !.Status = m[c]]] : m \in [S -> Statuses]}
           : S \in SUBSET AggNames}

InitAgg ==
    /\ newChecker(checkerConfig(NoChecks, NoChecks))
    /\ pure \in {[f |-> "aggregateStatus", results |-> m, out |-> "none"] : m \in AggInputs}

\* aggregateStatus(results), for each order in which the map may be ranged over.
ApplyAggregateStatus ==
    /\ pure.f = "aggregateStatus"
    /\ pure.out = "none"
    /\ \E o \in Orders(DOMAIN pure.results) :
          pure' = [pure EXCEPT !.out = aggregateLoop(pure.results, o, StatusUp)]
    /\ UNCHANGED <<clock, cfg, started, asyncCheckCount, cancel, asyncWg, startedAndCountMtx,
                   checkStateMtx, state, ctxs, thr, calls, chk, exec, abandoned, loops,
                   prods, listenerCalls, componentCalls, panicked>>

NextAgg == ApplyAggregateStatus

SpecAgg == InitAgg /\ [][NextAgg]_vars

\* C1: aggregateStatus returns Down iff some component is Down, Up iff all
\* components are Up (the empty map included), and Unknown otherwise.
C1_AggregateIsWorst ==
    (pure.f = "aggregateStatus" /\ pure.out # "none") =>
        LET sts == {pure.results[c].Status : c \in DOMAIN pure.results}
        IN /\ pure.out = StatusDown <=> StatusDown \in sts
           /\ pure.out = StatusUp <=> sts \subseteq {StatusUp}
           /\ (StatusDown \notin sts /\ ~(sts \subseteq {StatusUp})) => pure.out = StatusUnknown
           /\ pure.out = aggregateStatus(pure.results)

\* Up, Unknown and Down together aggregate to Down.
C1_Witness ==
    /\ pure.f = "aggregateStatus"
    /\ pure.out = StatusDown
    /\ {pure.results[c].Status : c \in DOMAIN pure.results} = Statuses

---------------------------------------------------------------------------
(* evaluateCheckStatus applied to check states and thresholds *)

Times == Epoch..MaxTime
EvalStates ==
    [LastCheckedAt : {ZeroTime, MaxTime}, LastSuccessAt : {ZeroTime} \cup Times,
     LastFailureAt : {ZeroTime}, FirstCheckStartedAt : {ZeroTime} \cup Times,
     ContiguousFails : 0..MaxFailsB, Result : {NilResult, CheckErr},
     Status : {StatusUnknown}]

InitEval ==
    /\ newChecker(checkerConfig(NoChecks, NoChecks))
    /\ pure \in {[f |-> "evaluateCheckStatus", st |-> st, maxTimeInError |-> d,
                  maxFails |-> n, now1 |-> t1, now2 |-> t2, out |-> "none"] :
                 st \in EvalStates, d \in 0..MaxDuration, n \in 0..MaxFailsB,
                 t1 \in Times, t2 \in Times}
    /\ pure.now1 <= pure.now2

ApplyEvaluateCheckStatus ==
    /\ pure.f = "evaluateCheckStatus"
    /\ pure.out = "none"
    /\ pure' = [pure EXCEPT !.out = evaluateCheckStatus(pure.st, pure.maxTimeInError,
                                                       pure.maxFails, pure.now1, pure.now2)]
    /\ UNCHANGED <<clock, cfg, started, asyncCheckCount, cancel, asyncWg, startedAndCountMtx,
                   checkStateMtx, state, ctxs, thr, calls, chk, exec, abandoned, loops,
                   prods, listenerCalls, componentCalls, panicked>>

NextEval == ApplyEvaluateCheckStatus

SpecEval == InitEval /\ [][NextEval]_vars

\* The status the specification gives a check state at the instant now.
SpecifiedStatus(st, maxTimeInError, maxFails, now) ==
    IF st.LastCheckedAt = ZeroTime THEN StatusUnknown
    ELSE IF st.Result = NilResult THEN StatusUp
    ELSE IF /\ st.ContiguousFails >= maxFails
            /\ now >= st.FirstCheckStartedAt + maxTimeInError
            /\ (st.LastSuccessAt = ZeroTime \/ now >= st.LastSuccessAt + maxTimeInError)
         THEN StatusDown
         ELSE StatusUp

---------------------------------------------------------------------------
(* The interceptor chain around one execution of a check *)

\* An interceptor of the model records the state it is called with, calls
\* next with that state, records the state next returns and returns it.
GlobalInterceptors == {[of |-> "checker", n |-> i] : i \in 1..MaxInterceptors}
CheckInterceptors == {[of |-> "check", n |-> i] : i \in 1..MaxInterceptors}
InterceptorLists(S) ==
    {l \in UNION {[1..n -> S] : n \in 0..MaxInterceptors} :
        \A i, j \in DOMAIN l : i # j => l[i] # l[j]}

\* The interceptors of the check appended before those of the Checker.
appendInterceptors_checkFirst(cfgInterceptors, checkInterceptors) ==
    checkInterceptors \o cfgInterceptors

\* interceptors = append(interceptors, cfg.interceptors...), then
\* append(interceptors, check.Interceptors...).
appendInterceptors(cfgInterceptors, checkInterceptors) ==
    cfgInterceptors \o checkInterceptors

\* The loop of withInterceptors from index idx down: chain lists the
\* interceptors wrapped around target so far, the outermost first.
RECURSIVE withInterceptorsLoop(_, _, _)
withInterceptorsLoop(interceptors, idx, chain) ==
    IF idx >= 1
    THEN withInterceptorsLoop(interceptors, idx - 1, <<interceptors[idx]>> \o chain)
    ELSE chain

withInterceptors(interceptors) == withInterceptorsLoop(interceptors, Len(interceptors), <<>>)

\* The innermost function: executeCheckFunc has returned in.result at in.now.
\* executeCheck advances the state it is called with; the loop of a periodic
\* check advances the state it read and sets FirstCheckStartedAt.
target(in, st) ==
    IF in.f = "executeCheck"
    THEN createNextCheckState(in.result, in.check, st, in.now)
    ELSE [createNextCheckState(in.result, in.check, in.oldState, in.now)
            EXCEPT !.FirstCheckStartedAt = in.firstCheckStartedAt]

\* An interceptor that returns the state in.returned without calling next.
SkippingInterceptors == {[of |-> "skip", n |-> 1]}

RECURSIVE callChain_alwaysNext(_, _, _, _)
RECURSIVE callChain(_, _, _, _)
\* A chain that goes on to next whatever the interceptor does.
callChain_alwaysNext(chain, in, st, trace) ==
    IF chain = <<>>
    THEN [state |-> target(in, st),
          trace |-> Append(trace, [ev |-> "target", by |-> "target", state |-> st])]
    ELSE LET entered == Append(trace, [ev |-> "enter", by |-> Head(chain), state |-> st])
             r == callChain_alwaysNext(Tail(chain), in, st, entered)
         IN [state |-> r.state,
             trace |-> Append(r.trace, [ev |-> "exit", by |-> Head(chain),
                                        state |-> r.state])]

\* A call of the chain with state st; trace is what was recorded before.
callChain(chain, in, st, trace) ==
    IF chain = <<>>
    THEN [state |-> target(in, st),
          trace |-> Append(trace, [ev |-> "target", by |-> "target", state |-> st])]
    ELSE IF Head(chain) \in SkippingInterceptors
    THEN [state |-> in.returned,
          trace |-> trace \o <<[ev |-> "enter", by |-> Head(chain), state |-> st],
                               [ev |-> "exit", by |-> Head(chain), state |-> in.returned]>>]
    ELSE LET entered == Append(trace, [ev |-> "enter", by |-> Head(chain), state |-> st])
             r == callChain(Tail(chain), in, st, entered)
         IN [state |-> r.state,
             trace |-> Append(r.trace, [ev |-> "exit", by |-> Head(chain),
                                        state |-> r.state])]

\* The state the chain is called with: executeCheck stamps FirstCheckStartedAt
\* first, the loop of a periodic check passes the state it read.
chainInput(in) ==
    IF in.f = "executeCheck" /\ IsZero(in.oldState.FirstCheckStartedAt)
    THEN [in.oldState EXCEPT !.FirstCheckStartedAt = in.now]
    ELSE in.oldState

ChainStates ==
    {NewCheckState,
     createNextCheckState(CheckErr, CheckTolerant,
                          [NewCheckState EXCEPT !.FirstCheckStartedAt = Epoch], Epoch)}

InitChain ==
    /\ newChecker(checkerConfig(NoChecks, NoChecks))
    /\ pure \in {[f |-> f, cfgInterceptors |-> gi, checkInterceptors |-> ci, check |-> check,
                  oldState |-> st, result |-> r, now |-> Epoch + 1,
                  firstCheckStartedAt |-> Epoch, trace |-> <<>>, out |-> st,
                  done |-> FALSE] :
                 f \in {"executeCheck", "startAsyncChecks"},
                 gi \in InterceptorLists(GlobalInterceptors),
                 ci \in InterceptorLists(CheckInterceptors),
                 check \in {CheckFast, CheckTolerant},
                 st \in ChainStates, r \in FnResults}

\* One execution through the chain, in executeCheck or in the loop of a
\* periodic check.
ApplyChain(f) ==
    /\ pure.f = f
    /\ ~pure.done
    /\ LET interceptors == appendInterceptors(pure.cfgInterceptors, pure.checkInterceptors)
           r == callChain(withInterceptors(interceptors), pure, chainInput(pure), <<>>)
       IN pure' = [pure EXCEPT !.out = r.state, !.trace = r.trace, !.done = TRUE]
    /\ UNCHANGED <<clock, cfg, started, asyncCheckCount, cancel, asyncWg, startedAndCountMtx,
                   checkStateMtx, state, ctxs, thr, calls, chk, exec, abandoned, loops,
                   prods, listenerCalls, componentCalls, panicked>>

NextChain ==
    \/ ApplyChain("executeCheck")
    \/ ApplyChain("startAsyncChecks")

SpecChain == InitChain /\ [][NextChain]_vars

\* C17: the interceptors of the Checker are entered in their configured
\* order, then those of the check in theirs, then the check is executed and
\* the state advanced; the chain is left in the opposite order.  Every
\* interceptor is entered with the state from before the execution and left
\* with the state that the execution returned.
C17_InterceptorOrder ==
    pure.f \in {"executeCheck", "startAsyncChecks"} /\ pure.done =>
        LET ng == Len(pure.cfgInterceptors)
            nc == Len(pure.checkInterceptors)
            n == ng + nc
            nth(i) == IF i <= ng THEN pure.cfgInterceptors[i]
                      ELSE pure.checkInterceptors[i - ng]
            before == chainInput(pure)
        IN /\ Len(pure.trace) = 2 * n + 1
           /\ \A i \in 1..n :
                 pure.trace[i] = [ev |-> "enter", by |-> nth(i), state |-> before]
           /\ pure.trace[n + 1] = [ev |-> "target", by |-> "target", state |-> before]
           /\ \A i \in 1..n :
                 pure.trace[2 * n + 2 - i] = [ev |-> "exit", by |-> nth(i), state |-> pure.out]
           /\ pure.out.LastCheckedAt = pure.now
           /\ pure.out.Result = pure.result

\* Two interceptors of the Checker and two of the check around an execution
\* that failed.
C17_Witness ==
    /\ pure.f = "executeCheck"
    /\ pure.done
    /\ Len(pure.cfgInterceptors) = 2 /\ Len(pure.checkInterceptors) = 2
    /\ Len(pure.trace) = 9
    /\ pure.out.Result = CheckErr


---------------------------------------------------------------------------
(* An interceptor that does not call next *)

InitSkip ==
    /\ newChecker(checkerConfig(NoChecks, NoChecks))
    /\ pure \in {[f |-> f, cfgInterceptors |-> gi, checkInterceptors |-> ci, check |-> CheckFast,
                  oldState |-> st, result |-> r, now |-> Epoch + 1,
                  firstCheckStartedAt |-> Epoch, trace |-> <<>>, out |-> st,
                  returned |-> ret, done |-> FALSE] :
                 f \in {"executeCheck", "startAsyncChecks"},
                 gi \in InterceptorLists(GlobalInterceptors \cup SkippingInterceptors),
                 ci \in InterceptorLists(CheckInterceptors \cup SkippingInterceptors),
                 st \in ChainStates, r \in FnResults, ret \in ChainStates}

SpecSkip == InitSkip /\ [][NextChain]_vars

\* The interceptors of the execution in pure, in the order of the chain.
ChainOf(p) == appendInterceptors(p.cfgInterceptors, p.checkInterceptors)
Skips(p) == \E i \in 1..Len(ChainOf(p)) : ChainOf(p)[i] \in SkippingInterceptors

\* C33: if an interceptor of the chain returns without calling next, the
\* check function is not executed and no interceptor behind it is entered; the
\* execution ends normally and the new state of the component is the state
\* that interceptor returned.  If every interceptor calls next, the function
\* is executed.
C33_SkippedExecution ==
    pure.f \in {"executeCheck", "startAsyncChecks"} /\ pure.done =>
        LET first == CHOOSE i \in 1..Len(ChainOf(pure)) :
                        /\ ChainOf(pure)[i] \in SkippingInterceptors
                        /\ \A j \in 1..(i - 1) : ChainOf(pure)[j] \notin SkippingInterceptors
        IN IF Skips(pure)
           THEN /\ \A i \in 1..Len(pure.trace) : pure.trace[i].ev # "target"
                /\ Len(pure.trace) = 2 * first
                /\ \A i \in 1..first :
                      /\ pure.trace[i].ev = "enter" /\ pure.trace[i].by = ChainOf(pure)[i]
                      /\ pure.trace[2 * first + 1 - i].ev = "exit"
                      /\ pure.trace[2 * first + 1 - i].by = ChainOf(pure)[i]
                /\ pure.out = pure.returned
                /\ ~panicked
           ELSE \E i \in 1..Len(pure.trace) : pure.trace[i].ev = "target"

\* An interceptor of the Checker calls next, an interceptor of the check does
\* not and returns a state that differs from the one it was called with.
C33_Witness ==
    /\ pure.f = "startAsyncChecks" /\ pure.done
    /\ Len(pure.cfgInterceptors) = 1 /\ pure.cfgInterceptors[1] \in GlobalInterceptors
    /\ Len(pure.checkInterceptors) = 2
    /\ pure.checkInterceptors[1] \in SkippingInterceptors
    /\ pure.out = pure.returned
    /\ pure.returned # chainInput(pure)

---------------------------------------------------------------------------
(* The Checker built with autostart, with one periodic check: thread 1 calls
   Stop and Start, thread 2 calls Stop, Check, IsStarted and
   GetRunningPeriodicCheckCount, all at any time *)

\* NewChecker without WithDisabledAutostart: newChecker has called Start,
\* which has launched the initial Check and the loops and has returned.
InitAutostart ==
    /\ clock = Epoch
    /\ cfg = checkerConfig(NoChecks, [c \in {"periodic"} |-> CheckPeriodic])
    /\ started = TRUE
    /\ asyncCheckCount = Cardinality(AsyncNames)
    /\ cancel = 1
    /\ asyncWg = Cardinality(AsyncNames)
    /\ startedAndCountMtx = NoHolder
    /\ checkStateMtx = NoHolder
    /\ state = [Status |-> StatusUnknown, CheckState |-> [c \in AllNames |-> NewCheckState]]
    /\ ctxs = [g \in {1} |-> FALSE]
    /\ thr = [t \in Threads |-> [pc |-> "idle", op |-> "none", res |-> NoResult,
                                     ctx |-> NilCancel, todo |-> {}, n |-> 0,
                                     deadline |-> NoDeadline]]
    /\ calls = [k \in Callers |-> IF k = InitCaller(1) THEN "lock" ELSE "none"]
    /\ chk = NoChk
    /\ exec = [c \in SyncNames |-> IdleExec]
    /\ abandoned = [c \in AllNames |-> 0]
    /\ loops = [g \in Gens |-> [c \in AsyncNames |->
                    IF g = 1 THEN [IdleLoop EXCEPT !.pc = "start"] ELSE IdleLoop]]
    /\ prods = [g \in Gens |-> [c \in AsyncNames |-> IdleProd]]
    /\ listenerCalls = <<>>
    /\ componentCalls = <<>>
    /\ panicked = FALSE
    /\ pure = [f |-> "none"]

\* IsStarted(): RLock, read started, RUnlock.  The value returned is started.
IsStarted(t) ==
    /\ ~panicked
    /\ thr[t].pc = "idle"
    /\ thr[t].n < MaxCalls
    /\ startedAndCountMtx = NoHolder
    /\ thr' = [thr EXCEPT ![t] = [@ EXCEPT !.op = "IsStarted", !.n = @ + 1]]
    /\ UNCHANGED <<clock, cfg, lifecycleVars, checkStateMtx, state, calls, chk, exec,
                   abandoned, periodicVars, listenerCalls, componentCalls, panicked, pure>>

\* GetRunningPeriodicCheckCount(): RLock, read asyncCheckCount, RUnlock.  The
\* value returned is asyncCheckCount.
GetRunningAsyncCheckCount(t) ==
    /\ ~panicked
    /\ thr[t].pc = "idle"
    /\ thr[t].n < MaxCalls
    /\ startedAndCountMtx = NoHolder
    /\ thr' = [thr EXCEPT ![t] = [@ EXCEPT !.op = "GetRunningAsyncCheckCount", !.n = @ + 1]]
    /\ UNCHANGED <<clock, cfg, lifecycleVars, checkStateMtx, state, calls, chk, exec,
                   abandoned, periodicVars, listenerCalls, componentCalls, panicked, pure>>

\* The steps inside a call of Start or Stop by thread t.
LifecycleProgress(t) ==
    \/ StartAsyncLock(t)
    \/ \E c \in AsyncNames : StartAsyncSpawn(t, c)
    \/ StartAsyncUnlock(t)
    \/ StopWait(t)
    \/ StopLock(t)

\* The steps of the program that are not the begin of a call: the calls in
\* progress and every goroutine of the periodic checks, check functions
\* included.
CallProgress ==
    \/ \E t \in Threads : LifecycleProgress(t)
    \/ \E k \in Callers : CheckLock(k)
    \/ \E k \in Callers : CheckReturn(k)
    \/ PeriodicStep

NextCalls ==
    \/ Tick /\ clock < Epoch + CallsHorizon
    \/ StopCall(1)
    \/ StartCall(1)
    \/ StopCall(2)
    \/ CheckCall(2)
    \/ IsStarted(2)
    \/ GetRunningAsyncCheckCount(2)
    \/ CallProgress

SpecCalls == InitAutostart /\ [][NextCalls]_vars

\* Every call in progress and every goroutine is scheduled fairly, and the
\* check functions return; nothing is assumed about the calls made and the clock.
FairSpecCalls == SpecCalls /\ WF_vars(CallProgress)

\* The goroutine that holds one of the two mutexes neither holds nor waits
\* for the other one.
NoNestedLocks ==
    /\ startedAndCountMtx # NoHolder =>
          /\ checkStateMtx # startedAndCountMtx
          /\ calls[startedAndCountMtx] # "lock"
    /\ checkStateMtx \in {ThreadCaller(t) : t \in Threads} =>
          thr[checkStateMtx.id].pc \notin {"startAsync", "stopLock"}

\* Thread t is inside a call.
InCall(t) == thr[t].pc # "idle"

\* C38: concurrent calls of Start, Stop, Check, GetRunningPeriodicCheckCount
\* and IsStarted and the periodic loops never deadlock: no goroutine takes
\* one of the two mutexes while it holds the other, and every call returns.
C38_NoDeadlock ==
    /\ []NoNestedLocks
    /\ \A t \in Threads : InCall(t) ~> ~InCall(t)

\* A call of Stop has returned and no call of Start has begun since: the
\* Checker is not started and no call of Start or Stop is in progress.
StoppedSinceStop == ~started /\ cancel # NilCancel /\ LifecycleIdle

\* C39: after Stop has returned and until the next Start, no periodic loop
\* writes the component states or triggers a listener: the states of the
\* periodic components and the calls of the listeners stay as they are,
\* whatever the loops and their producers still do.
C39_NoWritesAfterStop ==
    [][StoppedSinceStop =>
          /\ \A g \in Gens, c \in AsyncNames : ~LoopUpdated(g, c)
          /\ \A c \in AsyncNames : state'.CheckState[c] = state.CheckState[c]
          /\ componentCalls' = componentCalls]_vars

====
